---- MODULE Spec2Model ----
(***************************************************************************)
(* A model of the mediscan-iq core: the PHI anonymizer, the keyword        *)
(* highlighter's span collection, and the risk tagger and summarizer with  *)
(* their construction-time model loading.                                  *)
(*                                                                         *)
(* Text is a sequence of one-character strings.  Offsets are 0-based and   *)
(* half-open as in Python: the character at offset i is txt[i+1].          *)
(* Regular expressions are syntax trees interpreted by a backtracking      *)
(* matcher that returns the possible end offsets of a match in the order   *)
(* Python's engine tries them, so the first one is the match re returns.   *)
(***************************************************************************)
EXTENDS Integers, Sequences, FiniteSets, TLC

VARIABLES
    settings,       \* the anonymizer's part of the global settings object
    anonText,       \* the text passed to anonymize
    anonResult,     \* what anonymize returned: [done, text, counts]
    anonLog,        \* the calls of anonymize that returned, oldest first:
                    \* [text, out, counts]
    hlText,         \* the text passed to _collect_matches
    hlFound,        \* the spans the finditer loops appended, before the sort
    hlResult,       \* what _collect_matches returned: [done, spans]
    riskCfg,        \* RiskTagger.cfg: labels, th_high, th_mod, use_heuristics
    phase,          \* "new" before Analyzer() has run, "ready" after
    nli_ok,         \* RiskTagger.nli_ok
    abstractive_ok, \* Summarizer.abstractive_ok
    loads,          \* how often load_nli and load_seq2seq have been called,
                    \* and whether the call raised
    segCall,        \* a call of split_sentences: [text, done, path, sents]
    sumCfg,         \* Summarizer.cfg: max_input_tokens, prompt_style
    lastCall,       \* the outcome of the latest tag or summarize call
    run             \* for each caller of Analyzer.run: where it is in run,
                    \* and the locals of run

vars == <<settings, anonText, anonResult, anonLog, hlText, hlFound, hlResult,
          segCall, riskCfg, phase, nli_ok, abstractive_ok, loads, sumCfg, lastCall,
          run>>

segVars == <<segCall>>

anonVars == <<settings, anonText, anonResult, anonLog>>

hlVars == <<hlText, hlFound, hlResult>>

riskVars == <<riskCfg, phase, nli_ok, abstractive_ok, loads, sumCfg, lastCall, run>>

-----------------------------------------------------------------------------
(* Characters *)

Digit == {"0", "1", "2", "3", "4", "5", "6", "7", "8", "9"}

UpperSeq == <<"A", "B", "C", "D", "E", "F", "G", "H", "I", "J", "K", "L", "M",
              "N", "O", "P", "Q", "R", "S", "T", "U", "V", "W", "X", "Y", "Z">>

LowerSeq == <<"a", "b", "c", "d", "e", "f", "g", "h", "i", "j", "k", "l", "m",
              "n", "o", "p", "q", "r", "s", "t", "u", "v", "w", "x", "y", "z">>

Upper == {UpperSeq[i] : i \in DOMAIN UpperSeq}

Lower == {LowerSeq[i] : i \in DOMAIN LowerSeq}

Alpha == Upper \cup Lower

\* \w
WordChar == Alpha \cup Digit \cup {"_"}

\* \s: space, tab, line feed, carriage return, form feed
Space == {" ", "\t", "\n", "\r", "\f"}

\* str.lower() on one character
ToLower(c) ==
    IF c \in Upper
    THEN LowerSeq[CHOOSE i \in DOMAIN UpperSeq : UpperSeq[i] = c]
    ELSE c

ToUpper(c) ==
    IF c \in Lower
    THEN UpperSeq[CHOOSE i \in DOMAIN LowerSeq : LowerSeq[i] = c]
    ELSE c

\* str.lower()
LowerText(txt) == [i \in DOMAIN txt |-> ToLower(txt[i])]

-----------------------------------------------------------------------------
(* Sequences *)

Max(a, b) == IF a >= b THEN a ELSE b

\* txt[s:e]
Slice(txt, s, e) == IF e <= s THEN <<>> ELSE SubSeq(txt, s + 1, e)

\* c * n
Repeat(c, n) == [i \in 1..n |-> c]

RECURSIVE Concat(_)
\* "".join(parts)
Concat(parts) ==
    IF parts = <<>> THEN <<>> ELSE Head(parts) \o Concat(Tail(parts))

\* needle in txt
Contains(txt, needle) ==
    \E s \in 0..(Len(txt) - Len(needle)) :
        Slice(txt, s, s + Len(needle)) = needle

RECURSIVE FragTexts(_, _)
\* the texts put together from at most n of the fragments frags
FragTexts(frags, n) ==
    IF n = 0 THEN {<<>>}
    ELSE LET shorter == FragTexts(frags, n - 1)
         IN  shorter \cup {f \o t : f \in frags, t \in shorter}

RECURSIVE Dedup(_, _)
\* the first occurrences of the elements of q that are not in seen, in order
Dedup(q, seen) ==
    IF q = <<>> THEN <<>>
    ELSE IF Head(q) \in seen THEN Dedup(Tail(q), seen)
    ELSE <<Head(q)>> \o Dedup(Tail(q), seen \cup {Head(q)})

-----------------------------------------------------------------------------
(* Regular expressions: syntax *)

\* a character class
Set(S) == [t |-> "set", s |-> S]

\* concatenation
Cat(rs) == [t |-> "cat", rs |-> rs]

\* alternation r1|r2|...
Alt(rs) == [t |-> "alt", rs |-> rs]

\* greedy repetition r{lo,hi}
Rep(r, lo, hi) == [t |-> "rep", r |-> r, lo |-> lo, hi |-> hi]

\* greedy repetition r{lo,}: hi = -1 stands for no upper limit
RepMin(r, lo) == [t |-> "rep", r |-> r, lo |-> lo, hi |-> -1]

\* r?
Opt(r) == Rep(r, 0, 1)

\* r*
Star(r) == RepMin(r, 0)

\* r+
Plus(r) == RepMin(r, 1)

\* \b
WB == [t |-> "wb"]

\* one position of a lookbehind: a character class, or "." for any character
\* but a line feed
Class(S) == [s |-> S, dot |-> FALSE]

Dot == [s |-> {}, dot |-> TRUE]

\* (?<=...) over a fixed sequence of positions
Behind(cs) == [t |-> "lb", cs |-> cs, neg |-> FALSE]

\* (?<!...) over a fixed sequence of positions
NotBehind(cs) == [t |-> "lb", cs |-> cs, neg |-> TRUE]

\* ^ without re.MULTILINE
Bos == [t |-> "bos"]

\* a literal string
Lit(cs) == Cat([i \in DOMAIN cs |-> Set({cs[i]})])

-----------------------------------------------------------------------------
(* Regular expressions: matching *)

\* c matches the class S; with re.I both cases of c are tried
InSet(c, S, ic) == c \in S \/ (ic /\ (ToLower(c) \in S \/ ToUpper(c) \in S))

\* \b holds at offset i
AtWordBoundary(txt, i) ==
    (i > 0 /\ txt[i] \in WordChar) # (i < Len(txt) /\ txt[i + 1] \in WordChar)

\* the characters before offset i fit the positions cs of a lookbehind
IsBehind(cs, txt, i, ic) ==
    /\ i >= Len(cs)
    /\ \A k \in DOMAIN cs :
          \/ cs[k].dot /\ txt[i - Len(cs) + k] # "\n"
          \/ InSet(txt[i - Len(cs) + k], cs[k].s, ic)

RECURSIVE RunLen(_, _, _, _, _)
\* how many characters from offset i on are in the class S, up to limit
RunLen(txt, i, S, ic, limit) ==
    IF limit # 0 /\ i < Len(txt) /\ InSet(txt[i + 1], S, ic)
    THEN 1 + RunLen(txt, i + 1, S, ic, IF limit < 0 THEN limit ELSE limit - 1)
    ELSE 0

RECURSIVE Ends(_, _, _, _), CatEnds(_, _, _, _, _), AltEnds(_, _, _, _, _),
          RepEnds(_, _, _, _, _, _), EndsFromAll(_, _, _, _, _),
          RepFromAll(_, _, _, _, _, _, _)

\* the end offsets of the matches of r that start at offset i, in the order
\* the backtracking engine finds them
Ends(r, txt, i, ic) ==
    CASE r.t = "set" ->
            IF i < Len(txt) /\ InSet(txt[i + 1], r.s, ic) THEN <<i + 1>> ELSE <<>>
      [] r.t = "wb" -> IF AtWordBoundary(txt, i) THEN <<i>> ELSE <<>>
      [] r.t = "lb" -> IF IsBehind(r.cs, txt, i, ic) # r.neg THEN <<i>> ELSE <<>>
      [] r.t = "bos" -> IF i = 0 THEN <<i>> ELSE <<>>
      [] r.t = "cat" -> CatEnds(r.rs, 1, txt, <<i>>, ic)
      [] r.t = "alt" -> AltEnds(r.rs, 1, txt, i, ic)
      [] r.t = "rep" -> RepEnds(r.r, r.lo, r.hi, txt, i, ic)

\* the matches of r from each start in starts, in order
EndsFromAll(r, txt, starts, k, ic) ==
    IF k > Len(starts) THEN <<>>
    ELSE Ends(r, txt, starts[k], ic) \o EndsFromAll(r, txt, starts, k + 1, ic)

CatEnds(rs, k, txt, starts, ic) ==
    IF k > Len(rs) \/ starts = <<>> THEN starts
    ELSE CatEnds(rs, k + 1, txt,
                 Dedup(EndsFromAll(rs[k], txt, starts, 1, ic), {}), ic)

AltEnds(rs, k, txt, i, ic) ==
    IF k > Len(rs) THEN <<>>
    ELSE Ends(rs[k], txt, i, ic) \o AltEnds(rs, k + 1, txt, i, ic)

RepFromAll(r, lo, hi, txt, starts, k, ic) ==
    IF k > Len(starts) THEN <<>>
    ELSE RepEnds(r, lo, hi, txt, starts[k], ic)
            \o RepFromAll(r, lo, hi, txt, starts, k + 1, ic)

\* greedy: one more iteration is tried before stopping.  A repeated
\* character class takes the longest run first and gives back one character
\* at a time.
RepEnds(r, lo, hi, txt, i, ic) ==
    IF r.t = "set"
    THEN LET m == RunLen(txt, i, r.s, ic, hi)
         IN  IF m < lo THEN <<>> ELSE [k \in 1..(m - lo + 1) |-> i + m - k + 1]
    ELSE LET once == SelectSeq(Ends(r, txt, i, ic), LAMBDA j : j > i)
             more == IF hi # 0
                     THEN RepFromAll(r, Max(lo - 1, 0), IF hi < 0 THEN hi ELSE hi - 1,
                                     txt, once, 1, ic)
                     ELSE <<>>
         IN  Dedup(more \o (IF lo = 0 THEN <<i>> ELSE <<>>), {})

\* the leftmost of the attempts <<start, ends>> that matched, with the end the
\* engine finds first
LeftmostOf(attempts) ==
    IF \A a \in attempts : a[2] = <<>> THEN <<>>
    ELSE LET first == CHOOSE a \in attempts :
                          /\ a[2] # <<>>
                          /\ \A b \in attempts : b[2] # <<>> => a[1] <= b[1]
         IN  <<first[1], first[2][1]>>

\* pattern.search(txt, s): <<start, end>> of the leftmost match at or after
\* offset s, or <<>>
SearchFrom(r, txt, s, ic) ==
    LeftmostOf({<<i, Ends(r, txt, i, ic)>> : i \in s..Len(txt)})

\* re.search(p, txt) is not None
Matches(r, txt, ic) == \E i \in 0..Len(txt) : Ends(r, txt, i, ic) # <<>>

RECURSIVE FindIterFrom(_, _, _, _), FindIterAfter(_, _, _, _)
\* the matches from offset s on
FindIterFrom(r, txt, s, ic) == FindIterAfter(r, txt, SearchFrom(r, txt, s, ic), ic)

\* the match m, and the matches behind it
FindIterAfter(r, txt, m, ic) ==
    IF m = <<>> THEN <<>>
    ELSE <<m>> \o FindIterFrom(r, txt, IF m[2] > m[1] THEN m[2] ELSE m[2] + 1, ic)

\* pattern.finditer(txt): the non-overlapping matches, left to right
FindIter(r, txt, ic) == FindIterFrom(r, txt, 0, ic)

-----------------------------------------------------------------------------
(* PHI patterns of the anonymizer *)

D == Set(Digit)

Months == <<Lit(<<"J", "a", "n">>), Lit(<<"F", "e", "b">>), Lit(<<"M", "a", "r">>),
            Lit(<<"A", "p", "r">>), Lit(<<"M", "a", "y">>), Lit(<<"J", "u", "n">>),
            Lit(<<"J", "u", "l">>), Lit(<<"A", "u", "g">>), Lit(<<"S", "e", "p">>),
            Lit(<<"O", "c", "t">>), Lit(<<"N", "o", "v">>), Lit(<<"D", "e", "c">>)>>

\* \b[A-Z0-9._%+-]+@[A-Z0-9.-]+\.[A-Z]{2,}\b
RxEmail ==
    Cat(<<WB, Plus(Set(Upper \cup Digit \cup {".", "_", "%", "+", "-"})),
          Set({"@"}), Plus(Set(Upper \cup Digit \cup {".", "-"})),
          Set({"."}), RepMin(Set(Upper), 2), WB>>)

\* \b(?:\+?\d{1,3})?[-. (]*\d{2,4}[-. )]*\d{3,4}[-. ]*\d{3,4}\b
RxPhone ==
    Cat(<<WB, Opt(Cat(<<Opt(Set({"+"})), Rep(D, 1, 3)>>)),
          Star(Set({"-", ".", " ", "("})), Rep(D, 2, 4),
          Star(Set({"-", ".", " ", ")"})), Rep(D, 3, 4),
          Star(Set({"-", ".", " "})), Rep(D, 3, 4), WB>>)

\* \b(MRN[:\s]*\d{5,12}|\d{7,12})\b
RxMrn ==
    Cat(<<WB,
          Alt(<<Cat(<<Lit(<<"M", "R", "N">>), Star(Set({":"} \cup Space)),
                      Rep(D, 5, 12)>>),
                Rep(D, 7, 12)>>),
          WB>>)

\* \b\d{3}-\d{2}-\d{4}\b
RxSsnLike ==
    Cat(<<WB, Rep(D, 3, 3), Set({"-"}), Rep(D, 2, 2), Set({"-"}), Rep(D, 4, 4), WB>>)

\* \b(?:\d{1,2}[-/]\d{1,2}[-/]\d{2,4}|(?:Jan|...|Dec)[a-z]*\s+\d{1,2},\s+\d{4})\b
RxDate ==
    Cat(<<WB,
          Alt(<<Cat(<<Rep(D, 1, 2), Set({"-", "/"}), Rep(D, 1, 2), Set({"-", "/"}),
                      Rep(D, 2, 4)>>),
                Cat(<<Alt(Months), Star(Set(Lower)), Plus(Set(Space)), Rep(D, 1, 2),
                      Set({","}), Plus(Set(Space)), Rep(D, 4, 4)>>)>>),
          WB>>)

\* \b(?:Patient|Pt\.?|Mr\.|Ms\.|Mrs\.|Dr\.|MD|RN)\s+[A-Z][a-z]+(?:\s[A-Z][a-z]+)?\b
RxNameHint ==
    Cat(<<WB,
          Alt(<<Lit(<<"P", "a", "t", "i", "e", "n", "t">>),
                Cat(<<Lit(<<"P", "t">>), Opt(Set({"."}))>>),
                Lit(<<"M", "r", ".">>), Lit(<<"M", "s", ".">>),
                Lit(<<"M", "r", "s", ".">>), Lit(<<"D", "r", ".">>),
                Lit(<<"M", "D">>), Lit(<<"R", "N">>)>>),
          Plus(Set(Space)), Set(Upper), Plus(Set(Lower)),
          Opt(Cat(<<Set(Space), Set(Upper), Plus(Set(Lower))>>)), WB>>)

\* \b\d{1,5}\s+[A-Z][A-Za-z]+\s(?:St|Street|Ave|Avenue|Rd|Road|Blvd|Boulevard|Ln|Lane)\b
RxAddressLike ==
    Cat(<<WB, Rep(D, 1, 5), Plus(Set(Space)), Set(Upper), Plus(Set(Alpha)), Set(Space),
          Alt(<<Lit(<<"S", "t">>), Lit(<<"S", "t", "r", "e", "e", "t">>),
                Lit(<<"A", "v", "e">>), Lit(<<"A", "v", "e", "n", "u", "e">>),
                Lit(<<"R", "d">>), Lit(<<"R", "o", "a", "d">>),
                Lit(<<"B", "l", "v", "d">>),
                Lit(<<"B", "o", "u", "l", "e", "v", "a", "r", "d">>),
                Lit(<<"L", "n">>), Lit(<<"L", "a", "n", "e">>)>>),
          WB>>)

\* PATTERNS, in insertion order; ic is the re.I flag
PATTERNS ==
    <<[name |-> "email", rx |-> RxEmail, ic |-> TRUE],
      [name |-> "phone", rx |-> RxPhone, ic |-> FALSE],
      [name |-> "mrn", rx |-> RxMrn, ic |-> TRUE],
      [name |-> "ssn_like", rx |-> RxSsnLike, ic |-> FALSE],
      [name |-> "date", rx |-> RxDate, ic |-> TRUE],
      [name |-> "name_hint", rx |-> RxNameHint, ic |-> FALSE],
      [name |-> "address_like", rx |-> RxAddressLike, ic |-> TRUE]>>

-----------------------------------------------------------------------------
(* Anonymizer *)

HexSeq == <<"0", "1", "2", "3", "4", "5", "6", "7", "8", "9",
            "a", "b", "c", "d", "e", "f">>

DigitSeq == <<"0", "1", "2", "3", "4", "5", "6", "7", "8", "9">>

\* the characters that have a code of their own; all others share code 0
CodeSeq == DigitSeq \o LowerSeq \o UpperSeq
              \o <<" ", ".", "-", "@", "_", ":", ",", "/", "+", "(", ")", "<", ">">>

\* the encoding of a character
CharCode(c) ==
    IF \E i \in DOMAIN CodeSeq : CodeSeq[i] = c
    THEN CHOOSE i \in DOMAIN CodeSeq : CodeSeq[i] = c
    ELSE 0

RECURSIVE Mix(_, _)
\* the digest state after absorbing the first k characters of cs
Mix(cs, k) ==
    IF k = 0 THEN 7 ELSE (Mix(cs, k - 1) * 31 + CharCode(cs[k])) % 65536

\* hashlib.sha256(data).hexdigest()[:10]: a fixed function from the data to
\* ten hexadecimal digits
HexDigest10(data) ==
    LET h == Mix(data, Len(data))
    IN  [k \in 1..10 |-> HexSeq[(((h \div k) + h * k + k) % 16) + 1]]

\* a token that also depends on how many calls of anonymize came before
HashTokenPerCall(salt, token) ==
    <<"<", "I", "D", ":">>
        \o HexDigest10(salt \o token \o <<DigitSeq[(Len(anonLog) % 10) + 1]>>)
        \o <<">">>

\* _hash_token
HashToken(salt, token) ==
    <<"<", "I", "D", ":">> \o HexDigest10(salt \o token) \o <<">">>

\* _mask_token
MaskToken(mask_char, token) == Repeat(mask_char, Max(6, Len(token)))

\* repl, the callback of _replace
Repl(s, strategy, token) ==
    IF strategy = <<"h", "a", "s", "h">> THEN HashToken(s.hash_salt, token)
    ELSE MaskToken(s.mask_char, token)

\* pattern.sub: the text with the k-th match of ms replaced by reps[k]
SubMatches(txt, ms, reps) ==
    LET from(k) == IF k = 1 THEN 0 ELSE ms[k - 1][2]
        last == IF ms = <<>> THEN 0 ELSE ms[Len(ms)][2]
    IN  Concat([k \in DOMAIN ms |-> Slice(txt, from(k), ms[k][1]) \o reps[k]])
            \o Slice(txt, last, Len(txt))

\* pattern.sub(repl, text) where the pattern matches at ms
ReplaceAt(s, txt, ms, strategy) ==
    SubMatches(txt, ms,
               [k \in DOMAIN ms |-> Repl(s, strategy, Slice(txt, ms[k][1], ms[k][2]))])

\* _replace
Replace(s, txt, pattern, strategy) ==
    ReplaceAt(s, txt, FindIter(pattern.rx, txt, pattern.ic), strategy)

\* the text with each of the matches ms replaced by rep
SubConstAt(ms, rep, txt) == SubMatches(txt, ms, [k \in DOMAIN ms |-> rep])

\* re.sub(rx, rep, txt) with a constant replacement
SubConst(rx, rep, txt) == SubConstAt(FindIter(rx, txt, FALSE), rep, txt)

\* the characters str.splitlines() breaks a text at
LineBreak == {"\n", "\r", "\f"}

RECURSIVE SplitLinesFrom(_, _, _)
\* the lines of txt from offset i on, the line that is open beginning at s
SplitLinesFrom(txt, s, i) ==
    IF i > Len(txt)
    THEN IF s > Len(txt) THEN <<>> ELSE <<SubSeq(txt, s, Len(txt))>>
    ELSE IF txt[i] \notin LineBreak THEN SplitLinesFrom(txt, s, i + 1)
    ELSE IF txt[i] = "\r" /\ i < Len(txt) /\ txt[i + 1] = "\n"
    THEN <<SubSeq(txt, s, i - 1)>> \o SplitLinesFrom(txt, i + 2, i + 2)
    ELSE <<SubSeq(txt, s, i - 1)>> \o SplitLinesFrom(txt, i + 1, i + 1)

\* str.splitlines()
SplitLines(txt) == SplitLinesFrom(txt, 1, 1)

\* str.strip()
Strip(txt) ==
    LET keep == {i \in DOMAIN txt : txt[i] \notin Space}
    IN  IF keep = {} THEN <<>>
        ELSE SubSeq(txt, CHOOSE i \in keep : \A j \in keep : i <= j,
                         CHOOSE i \in keep : \A j \in keep : i >= j)

\* counts.get(name, 0)
Get(counts, name, default) == IF name \in DOMAIN counts THEN counts[name] ELSE default

\* strategy = settings.anonymize_strategy.lower().strip()
Strategy(s) == Strip(LowerText(s.anonymize_strategy))

\* the state of the loop after a pattern: the count of the pattern grows by
\* the n matches found in the text before, if the substitution changed it
Recorded(st, name, out, n) ==
    IF out # st[1]
    THEN <<out, [m \in DOMAIN st[2] \cup {name} |->
                   IF m = name THEN Get(st[2], m, 0) + n ELSE st[2][m]]>>
    ELSE <<out, st[2]>>

\* one iteration of the loop over PATTERNS, on the state <<out, counts>>
AnonPass(s, st, pattern) ==
    IF pattern.name = "date" /\ s.keep_dates THEN st
    ELSE Recorded(st, pattern.name, Replace(s, st[1], pattern, Strategy(s)),
                  Len(FindIter(pattern.rx, st[1], pattern.ic)))

RECURSIVE AnonLoop(_, _, _)
\* the loop over PATTERNS from the k-th pattern on, entered with the state st
AnonLoop(s, st, k) ==
    IF st = st /\ k > Len(PATTERNS) THEN st
    ELSE AnonLoop(s, AnonPass(s, st, PATTERNS[k]), k + 1)

\* the second substitution of the whitespace reduction and the strip
ReduceLines(out1) ==
    Strip(SubConst(Cat(<<Star(Set(Space)), Set({"\n"}), Star(Set(Space))>>),
                   <<"\n">>, out1))

\* the whitespace reduction at the end of anonymize
ReduceWhitespace(txt) ==
    ReduceLines(SubConst(Plus(Set({" ", "\t"})), <<" ">>, txt))

\* the return value of anonymize after the loop over PATTERNS ended in st
Returned(s, st) ==
    [text |-> IF s.reduce_whitespace THEN ReduceWhitespace(st[1]) ELSE st[1],
     counts |-> st[2]]

\* anonymize(text) under the settings s: [text, counts]
Anonymize(s, txt) == Returned(s, AnonLoop(s, <<txt, <<>>>>, 1))

-----------------------------------------------------------------------------
(* Anonymizer: inputs and specification *)

\* the largest number of fragments an input text is put together from
MaxFrags == 2

\* "mediscan", the default of hash_salt
DefaultSalt == <<"m", "e", "d", "i", "s", "c", "a", "n">>

\* the settings anonymize reads; "#" stands for the default mask character,
\* a character that is neither a word character nor whitespace, and "1" is
\* a mask character (MASK_CHAR is any string) that is a digit
SettingsSet ==
    [anonymize_strategy : {<<"h", "a", "s", "h">>, <<"m", "a", "s", "k">>,
                           <<" ", "H", "a", "s", "h">>},
     mask_char : {"#", "1"},
     hash_salt : {DefaultSalt},
     reduce_whitespace : BOOLEAN,
     keep_dates : BOOLEAN]

DefaultSettings ==
    [anonymize_strategy |-> <<"h", "a", "s", "h">>, mask_char |-> "#", hash_salt |-> DefaultSalt,
     reduce_whitespace |-> TRUE, keep_dates |-> FALSE]

\* "Patient Mr. John Doe, email a@b.com, phone 415-555-0199. MRN 12345678."
ExampleReport ==
    <<"P", "a", "t", "i", "e", "n", "t", " ", "M", "r", ".", " ", "J", "o", "h", "n",
      " ", "D", "o", "e", ",", " ", "e", "m", "a", "i", "l", " ", "a", "@", "b", ".",
      "c", "o", "m", ",", " ", "p", "h", "o", "n", "e", " ", "4", "1", "5", "-", "5",
      "5", "5", "-", "0", "1", "9", "9", ".", " ", "M", "R", "N", " ", "1", "2", "3",
      "4", "5", "6", "7", "8", ".">>

\* "id 1234567 ACC1234567": a record number, and the same digits inside an
\* accession code
ExampleEmbedded ==
    <<"i", "d", " ", "1", "2", "3", "4", "5", "6", "7", " ", "A", "C", "C", "1", "2",
      "3", "4", "5", "6", "7">>

\* "a@b.com 415-555-0199 MRN: 12345"
ExampleThree ==
    <<"a", "@", "b", ".", "c", "o", "m", " ", "4", "1", "5", "-", "5", "5", "5", "-",
      "0", "1", "9", "9", " ", "M", "R", "N", ":", " ", "1", "2", "3", "4", "5">>

\* "Line 1   \n\n   Line 2"
ExampleLines ==
    <<"L", "i", "n", "e", " ", "1", " ", " ", " ", "\n", "\n", " ", " ", " ",
      "L", "i", "n", "e", " ", "2">>

\* "Line 1 \r Line 2": two lines that a bare carriage return separates
ExampleCarriage ==
    <<"L", "i", "n", "e", " ", "1", " ", "\r", " ", "L", "i", "n", "e", " ", "2">>

\* "ID 1111111": a number of seven equal digits
ExampleOnes == <<"I", "D", " ", "1", "1", "1", "1", "1", "1", "1">>

\* the pieces input texts are put together from
AnonFrags ==
    {<<"a", "@", "b", ".", "c", "o", "m">>,
     <<"4", "1", "5", "-", "5", "5", "5", "-", "0", "1", "9", "9">>,
     <<"1", "2", "3", "4", "5", "6", "7">>,
     <<"0", "1", "/", "0", "2", "/", "2", "0", "2", "4">>,
     <<"D", "r", ".", " ", "A", "n", "n", " ", "L", "e", "e">>,
     <<"L", "i", "n", "e">>,
     <<" ", " ">>,
     <<" ", "\n", "\t">>}

AnonTexts ==
    FragTexts(AnonFrags, MaxFrags)
        \cup {ExampleReport, ExampleEmbedded, ExampleThree, ExampleLines,
              ExampleCarriage, ExampleOnes}

NoAnonResult == [done |-> FALSE, text |-> <<>>, counts |-> <<>>]

AnonIdle ==
    /\ settings = DefaultSettings
    /\ anonText = <<>>
    /\ anonResult = NoAnonResult
    /\ anonLog = <<>>

\* a caller is about to call anonymize(anonText) under the settings
InitAnon ==
    /\ settings \in SettingsSet
    /\ anonText \in AnonTexts
    /\ anonResult = NoAnonResult
    /\ anonLog = <<>>

\* the caller's record of a call that returned r
Logged(r) ==
    /\ anonResult' = [done |-> TRUE, text |-> r.text, counts |-> r.counts]
    /\ anonLog' = Append(anonLog, [text |-> anonText, out |-> r.text,
                                   counts |-> r.counts])

\* anonymize(anonText) runs and returns
CallAnonymize ==
    /\ ~anonResult.done
    /\ Logged(Anonymize(settings, anonText))
    /\ UNCHANGED <<settings, anonText>>

\* the largest number of calls of anonymize one process makes
MaxCalls == 3

\* the texts of a process that calls anonymize again and again
RepeatTexts ==
    {ExampleThree, ExampleEmbedded,
     <<"a", "@", "b", ".", "c", "o", "m">>}

\* a process is about to make its first call of anonymize
InitRepeat ==
    /\ settings \in SettingsSet
    /\ anonText \in RepeatTexts
    /\ anonResult = NoAnonResult
    /\ anonLog = <<>>

\* the caller takes the result and is about to call anonymize(text)
AnotherCall(text) ==
    /\ anonResult.done
    /\ Len(anonLog) < MaxCalls
    /\ anonText' = text
    /\ anonResult' = NoAnonResult
    /\ UNCHANGED <<settings, anonLog>>

-----------------------------------------------------------------------------
(* Risk tagger: the keyword heuristics *)

W == Set(WordChar)

Ws == Plus(Set(Space))

\* HEURISTIC_PATTERNS
HEURISTIC_PATTERNS ==
    [high |->
        <<\* \b(subarachnoid|intracranial)\s+hemorrhage\b
          Cat(<<WB, Alt(<<Lit(<<"s", "u", "b", "a", "r", "a", "c", "h", "n", "o", "i", "d">>),
                          Lit(<<"i", "n", "t", "r", "a", "c", "r", "a", "n", "i", "a", "l">>)>>),
                Ws, Lit(<<"h", "e", "m", "o", "r", "r", "h", "a", "g", "e">>), WB>>),
          \* \bmass\s+(?:with|and)?\s*invasion\b
          Cat(<<WB, Lit(<<"m", "a", "s", "s">>), Ws,
                Opt(Alt(<<Lit(<<"w", "i", "t", "h">>), Lit(<<"a", "n", "d">>)>>)),
                Star(Set(Space)), Lit(<<"i", "n", "v", "a", "s", "i", "o", "n">>), WB>>),
          \* \bpulmonary\s+embolism\b
          Cat(<<WB, Lit(<<"p", "u", "l", "m", "o", "n", "a", "r", "y">>), Ws,
                Lit(<<"e", "m", "b", "o", "l", "i", "s", "m">>), WB>>),
          \* \bstemi\b|\bnstemi\b|\bmyocardial\s+infarction\b
          Alt(<<Cat(<<WB, Lit(<<"s", "t", "e", "m", "i">>), WB>>),
                Cat(<<WB, Lit(<<"n", "s", "t", "e", "m", "i">>), WB>>),
                Cat(<<WB, Lit(<<"m", "y", "o", "c", "a", "r", "d", "i", "a", "l">>), Ws,
                      Lit(<<"i", "n", "f", "a", "r", "c", "t", "i", "o", "n">>), WB>>)>>),
          \* \bmalignan\w+\b
          Cat(<<WB, Lit(<<"m", "a", "l", "i", "g", "n", "a", "n">>), Plus(W), WB>>),
          \* \bperforation\b
          Cat(<<WB, Lit(<<"p", "e", "r", "f", "o", "r", "a", "t", "i", "o", "n">>), WB>>)>>,
     moderate |->
        <<Cat(<<WB, Lit(<<"c", "a", "r", "d", "i", "o", "m", "e", "g", "a", "l", "y">>), WB>>),
          Cat(<<WB, Lit(<<"c", "o", "n", "s", "o", "l", "i", "d", "a", "t", "i", "o", "n">>), WB>>),
          Cat(<<WB, Lit(<<"e", "f", "f", "u", "s", "i", "o", "n">>), WB>>),
          Cat(<<WB, Lit(<<"p", "n", "e", "u", "m", "o", "n", "i", "a">>), WB>>),
          Cat(<<WB, Lit(<<"f", "r", "a", "c", "t", "u", "r", "e">>), WB>>),
          \* \bischemi\w+\b
          Cat(<<WB, Lit(<<"i", "s", "c", "h", "e", "m", "i">>), Plus(W), WB>>)>>]

LOW == "low risk"

MODERATE == "moderate risk"

HIGH == "high risk"

\* a dict of probabilities: keys in insertion order, and the value of key k
\* is num[k] / den.  The code computes in floating point; the model computes
\* the same expressions exactly.
Dist(keys, num, den) == [keys |-> keys, num |-> num, den |-> den]

\* the empty dict, which is also what None is modelled by: both are false
\* in `base_probs or ...` and `if base_probs and ...`
EmptyDist == Dist(<<>>, <<>>, 1)

KeySet(d) == {d.keys[i] : i \in DOMAIN d.keys}

\* a search that asks for every pattern of the group
AllMatch(patterns, text_l) ==
    \A i \in DOMAIN patterns : Matches(patterns[i], text_l, FALSE)

\* any(re.search(p, text_l) for p in patterns)
AnyMatch(patterns, text_l) ==
    \E i \in DOMAIN patterns : Matches(patterns[i], text_l, FALSE)

PriorHigh == Dist(<<HIGH, MODERATE, LOW>>, [k \in {HIGH, MODERATE, LOW} |->
                 CASE k = HIGH -> 85 [] k = MODERATE -> 10 [] k = LOW -> 5], 100)

PriorModerate == Dist(<<HIGH, MODERATE, LOW>>, [k \in {HIGH, MODERATE, LOW} |->
                     CASE k = HIGH -> 20 [] k = MODERATE -> 60 [] k = LOW -> 20], 100)

PriorNone == Dist(<<HIGH, MODERATE, LOW>>, [k \in {HIGH, MODERATE, LOW} |->
                 CASE k = HIGH -> 5 [] k = MODERATE -> 25 [] k = LOW -> 70], 100)

HeuristicScoreModerateFirst(text) ==
    LET text_l == LowerText(text)
    IN  IF AnyMatch(HEURISTIC_PATTERNS.moderate, text_l) THEN PriorModerate
        ELSE IF AnyMatch(HEURISTIC_PATTERNS.high, text_l) THEN PriorHigh
        ELSE PriorNone

\* RiskTagger._heuristic_score
HeuristicScore(text) ==
    LET text_l == LowerText(text)
        high == AnyMatch(HEURISTIC_PATTERNS.high, text_l)
        moderate == AnyMatch(HEURISTIC_PATTERNS.moderate, text_l)
    IN  IF high THEN PriorHigh
        ELSE IF moderate THEN PriorModerate
        ELSE PriorNone

\* "Acute subarachnoid hemorrhage."
TextHigh ==
    <<"A", "c", "u", "t", "e", " ", "s", "u", "b", "a", "r", "a", "c", "h", "n", "o",
      "i", "d", " ", "h", "e", "m", "o", "r", "r", "h", "a", "g", "e", ".">>

\* "Mild cardiomegaly."
TextModerate ==
    <<"M", "i", "l", "d", " ", "c", "a", "r", "d", "i", "o", "m", "e", "g", "a", "l",
      "y", ".">>

\* "No acute disease."
TextNone ==
    <<"N", "o", " ", "a", "c", "u", "t", "e", " ", "d", "i", "s", "e", "a", "s", "e",
      ".">>

\* "Pneumonia; NSTEMI."
TextBoth ==
    <<"P", "n", "e", "u", "m", "o", "n", "i", "a", ";", " ", "N", "S", "T", "E", "M",
      "I", ".">>

\* the texts passed to tag
RiskTexts == {TextHigh, TextModerate, TextNone, TextBoth}

\* "Pt. John Doe has pneumonia, call 415-555-0199."
RunTextPhi ==
    <<"P", "t", ".", " ", "J", "o", "h", "n", " ", "D", "o", "e", " ", "h", "a", "s",
      " ", "p", "n", "e", "u", "m", "o", "n", "i", "a", ",", " ", "c", "a", "l", "l",
      " ", "4", "1", "5", "-", "5", "5", "5", "-", "0", "1", "9", "9", ".">>

\* "Dr. Ann Lee: acute NSTEMI. Seen 01/02/2024. Yes. 5"
RunTextDated ==
    <<"D", "r", ".", " ", "A", "n", "n", " ", "L", "e", "e", ":", " ", "a", "c", "u",
      "t", "e", " ", "N", "S", "T", "E", "M", "I", ".", " ", "S", "e", "e", "n", " ",
      "0", "1", "/", "0", "2", "/", "2", "0", "2", "4", ".", " ", "Y", "e", "s", ".",
      " ", "5">>

\* the texts passed to Analyzer.run
RunTexts == {RunTextPhi, TextNone, RunTextDated}

\* the settings of a process that serves Analyzer.run
RunSettings ==
    {DefaultSettings, [DefaultSettings EXCEPT !.anonymize_strategy = <<"m", "a", "s", "k">>]}

\* anonymize(text), for each of the settings and texts of Analyzer.run
AnonymizeOf == [s \in RunSettings |-> [t \in RunTexts |-> Anonymize(s, t)]]

\* the anonymized texts Analyzer.run passes on
RunAnonyms == {AnonymizeOf[s][t].text : s \in RunSettings, t \in RunTexts}

\* _heuristic_score of each of the texts
PriorOf == [t \in RiskTexts \cup RunAnonyms |-> HeuristicScore(t)]

-----------------------------------------------------------------------------
(* Highlighter: _collect_matches *)

\* the largest number of fragments a highlighted text is put together from
MaxHlFrags == 3

\* the pieces highlighted texts are put together from: "STEMI", "pneumonia",
\* "mass and invasion", a space and a letter
HlFrags ==
    {<<"S", "T", "E", "M", "I">>,
     <<"p", "n", "e", "u", "m", "o", "n", "i", "a">>,
     <<"m", "a", "s", "s", " ", "a", "n", "d", " ", "i", "n", "v", "a", "s", "i", "o", "n">>,
     <<" ">>,
     <<"x">>}

HlTexts == FragTexts(HlFrags, MaxHlFrags)

\* the spans one re.finditer loop appends
SpansOfMatches(ms, severity) == [k \in DOMAIN ms |-> <<ms[k][1], ms[k][2], severity>>]

RECURSIVE SpansOfPatterns(_, _, _, _)
\* the spans the loop over the patterns of one severity appends, from the
\* k-th pattern on
SpansOfPatterns(text, severity, patterns, k) ==
    IF k > Len(patterns) THEN <<>>
    ELSE SpansOfMatches(FindIter(patterns[k], text, TRUE), severity)
            \o SpansOfPatterns(text, severity, patterns, k + 1)

\* spans after the loops over HEURISTIC_PATTERNS.items()
FoundSpans(text) ==
    SpansOfPatterns(text, "high", HEURISTIC_PATTERNS.high, 1)
        \o SpansOfPatterns(text, "moderate", HEURISTIC_PATTERNS.moderate, 1)

\* a key that puts the shorter of two spans with one start first
KeyLeqShorterFirst(a, b) ==
    \/ a[1] < b[1]
    \/ a[1] = b[1] /\ (a[2] - a[1]) <= (b[2] - b[1])

\* the key of spans.sort: (start, -(end - start))
KeyLeq(a, b) ==
    \/ a[1] < b[1]
    \/ a[1] = b[1] /\ (0 - (a[2] - a[1])) <= (0 - (b[2] - b[1]))

\* x put into the sorted list q behind every element whose key is not larger
Insert(q, x) ==
    LET n == Cardinality({i \in DOMAIN q : KeyLeq(q[i], x)})
    IN  SubSeq(q, 1, n) \o <<x>> \o SubSeq(q, n + 1, Len(q))

RECURSIVE SortSpans(_)
\* spans.sort(key=...): stable, ascending
SortSpans(q) ==
    IF q = <<>> THEN <<>>
    ELSE Insert(SortSpans(SubSeq(q, 1, Len(q) - 1)), q[Len(q)])

RECURSIVE Greedy(_, _, _, _)
\* the loop over the sorted spans from the k-th on
Greedy(spans, k, last_end, non_overlap) ==
    IF k > Len(spans) THEN non_overlap
    ELSE IF spans[k][1] >= last_end
         THEN Greedy(spans, k + 1, spans[k][2], Append(non_overlap, spans[k]))
         ELSE Greedy(spans, k + 1, last_end, non_overlap)

\* the spans are returned as the finditer loops appended them
ResolveAsFound(found) == found

\* the sort and the loop that drops overlaps, on the spans found
Resolve(found) == Greedy(SortSpans(found), 1, -1, <<>>)

\* _collect_matches(text)
CollectMatches(text) == Resolve(FoundSpans(text))

NoHlResult == [done |-> FALSE, spans |-> <<>>]

HlIdle ==
    /\ hlText = <<>>
    /\ hlFound = <<>>
    /\ hlResult = NoHlResult

\* the page is about to highlight hlText
InitHl ==
    /\ hlText \in HlTexts
    /\ hlFound = <<>>
    /\ hlResult = NoHlResult

\* _collect_matches(hlText) runs and returns; hlFound keeps the spans as
\* they were before the sort
CallCollectMatches ==
    /\ ~hlResult.done
    /\ hlFound' = FoundSpans(hlText)
    /\ hlResult' = [done |-> TRUE, spans |-> CollectMatches(hlText)]
    /\ UNCHANGED hlText

\* the length of the texts whose candidate spans are enumerated
MaxOffset == 3

\* the number of patterns of the tables whose candidate spans are enumerated
MaxPatterns == 2

\* the severity of the k-th pattern: items() yields the high patterns first
SeverityOf(k) == IF k = 1 THEN "high" ELSE "moderate"

\* what re.finditer can yield for one pattern on a text of len characters:
\* non-empty matches, left to right, none overlapping another
MatchLists(len) ==
    {ms \in UNION {[1..n -> {m \in (0..len) \X (0..len) : m[1] < m[2]}] : n \in 0..len} :
        \A k \in 1..(Len(ms) - 1) : ms[k][2] <= ms[k + 1][1]}

\* spans after the loops over a table of n patterns on a text of len
\* characters, whatever the patterns are: the matches of one pattern do not
\* overlap, those of two patterns may
CandidateLists(n, len) ==
    {Concat([k \in 1..n |-> SpansOfMatches(f[k], SeverityOf(k))]) :
        f \in [1..n -> MatchLists(len)]}

\* _collect_matches has found the spans hlFound and is about to sort them
InitResolve ==
    /\ hlText = <<>>
    /\ hlFound \in CandidateLists(MaxPatterns, MaxOffset)
    /\ hlResult = NoHlResult

\* the sort and the loop that drops overlaps run, and _collect_matches
\* returns
ResolveFound ==
    /\ ~hlResult.done
    /\ hlResult' = [done |-> TRUE, spans |-> Resolve(hlFound)]
    /\ UNCHANGED <<hlText, hlFound>>

-----------------------------------------------------------------------------
(* Risk tagger: fusion and decision *)

\* entailment probabilities are the multiples of 1/ScoreMax in [0, 1]
ScoreMax == 1

\* thresholds are the multiples of 1/ThDen in [0, 1], and the two defaults
ThDen == 2

\* risk_threshold_high = 0.64 and risk_threshold_moderate = 0.42, as fractions
DefaultThHigh == <<64, 100>>

DefaultThModerate == <<42, 100>>

\* the fraction x is at least the fraction y (denominators are positive)
Geq(x, y) == x[1] * y[2] >= y[1] * x[2]

\* probs.get(k, 0.0), as a fraction
Prob(d, k) == IF k \in KeySet(d) THEN <<d.num[k], d.den>> ELSE <<0, 1>>

RECURSIVE SumOver(_, _)
\* the sum of f over the set S
SumOver(f, S) ==
    IF S = {} THEN 0
    ELSE LET k == CHOOSE k \in S : TRUE IN f[k] + SumOver(f, S \ {k})

\* sum(probs.values()), as a numerator over d.den
Total(d) == SumOver(d.num, KeySet(d))

\* the entailment loop and the normalisation: scores[label] / ScoreMax is
\* P(entailment) for the label's hypothesis
ModelDist(labels, scores) ==
    LET raw == Dist(labels, [k \in {labels[i] : i \in DOMAIN labels} |-> scores[k]],
                    ScoreMax)
        total == Total(raw)
        \* s = sum(probs.values()) or 1.0
        s == IF total = 0 THEN <<1, 1>> ELSE <<total, raw.den>>
    IN  Dist(labels, [k \in KeySet(raw) |-> raw.num[k] * s[2]], raw.den * s[1])

\* the keys of probs followed by the keys of base that probs lacks
UnionKeys(probs, base) ==
    probs.keys \o SelectSeq(base.keys, LAMBDA k : k \notin KeySet(probs))

FuseSwapped(probs, base) ==
    LET p(k) == IF k \in KeySet(probs) THEN probs.num[k] ELSE 0
        b(k) == IF k \in KeySet(base) THEN base.num[k] ELSE 0
    IN  Dist(UnionKeys(probs, base),
             [k \in KeySet(probs) \cup KeySet(base) |->
                3 * p(k) * base.den + 7 * b(k) * probs.den],
             10 * probs.den * base.den)

\* {k: 0.7 * probs.get(k, 0.0) + 0.3 * base_probs.get(k, 0.0) for k in ...};
\* the order of the keys of the result is that of a set of strings, which
\* the model leaves open (see TopLabel)
Fuse(probs, base) ==
    LET p(k) == IF k \in KeySet(probs) THEN probs.num[k] ELSE 0
        b(k) == IF k \in KeySet(base) THEN base.num[k] ELSE 0
    IN  Dist(UnionKeys(probs, base),
             [k \in KeySet(probs) \cup KeySet(base) |->
                7 * p(k) * base.den + 3 * b(k) * probs.den],
             10 * probs.den * base.den)

\* the keys whose value is the largest
ArgMax(d) == {k \in KeySet(d) : \A j \in KeySet(d) : d.num[k] >= d.num[j]}

\* max(probs.items(), key=lambda kv: kv[1])[0] on a dict whose key order is
\* known: the first of the largest
FirstMax(d) == d.keys[CHOOSE i \in DOMAIN d.keys :
                        /\ d.keys[i] \in ArgMax(d)
                        /\ \A j \in 1..(i - 1) : d.keys[j] \notin ArgMax(d)]

ChooseLabelNoHigh(probs, top, th_high, th_mod) ==
    IF Geq(Prob(probs, MODERATE), th_mod) /\ top # HIGH THEN MODERATE
    ELSE top

\* the threshold rule of tag, on the unconstrained argmax top
ChooseLabel(probs, top, th_high, th_mod) ==
    IF Geq(Prob(probs, HIGH), th_high) THEN HIGH
    ELSE IF Geq(Prob(probs, MODERATE), th_mod) /\ top # HIGH THEN MODERATE
    ELSE top

\* settings.risk_nli_model
NliModelName == "facebook/bart-large-mnli"

TagMetaAlwaysModel(cfg, ok) ==
    [model |-> NliModelName,
     heuristics |-> IF cfg.use_heuristics THEN "True" ELSE "False",
     labels |-> cfg.labels]

\* meta of tag; labels stands for ",".join(labels)
TagMeta(cfg, ok) ==
    [model |-> IF ok THEN NliModelName ELSE "heuristics-only",
     heuristics |-> IF cfg.use_heuristics THEN "True" ELSE "False",
     labels |-> cfg.labels]

\* the distributions tag computes before it picks a label
TagProbs(cfg, ok, text, scores) ==
    LET base_probs == IF cfg.use_heuristics THEN PriorOf[text] ELSE EmptyDist
        model == IF ok THEN ModelDist(cfg.labels, scores) ELSE EmptyDist
        probs == IF ok THEN model
                 ELSE IF base_probs.keys # <<>> THEN base_probs
                 ELSE Dist(<<LOW>>, [k \in {LOW} |-> 1], 1)
        fused == base_probs.keys # <<>> /\ ok
    IN  [base |-> base_probs, model |-> model, fused |-> fused,
         probs |-> IF fused THEN Fuse(probs, base_probs) ELSE probs]

\* the labels max() can return for the final dict: the first of the largest
\* in key order, and any of the largest when the dict was built from a set
TopLabels(tp) == IF tp.fused THEN ArgMax(tp.probs) ELSE {FirstMax(tp.probs)}

-----------------------------------------------------------------------------
(* Summarizer: the paths of summarize *)

\* clean = re.sub(r"\s+", " ", text.strip())
Clean(text) == SubConst(Plus(Set(Space)), <<" ">>, Strip(text))

\* the largest number of fragments a text to summarize is put together from
MaxSumFrags == 2

\* the pieces the texts to summarize are put together from
SumFrags ==
    {<<"N", "o", " ", "a", "c", "u", "t", "e", " ", "d", "i", "s", "e", "a", "s", "e", ".">>,
     <<" ", "S", "m", "a", "l", "l", " ", "p", "l", "e", "u", "r", "a", "l", " ", "e", "f", "f", "u", "s", "i", "o", "n", ".", " ", "M", "a", "s", "s", " ", "i", "n", " ", "l", "e", "f", "t", " ", "l", "u", "n", "g", "!">>,
     <<" ", "O", "k", ".", " ", "N", "o", ".", " ", "O", "k", ".", " ", "N", "o", ".", " ", "O", "k", ".", " ", "N", "o", ".">>,
     <<" ", "F", "o", "l", "l", "o", "w", " ", "u", "p", " ", "i", "n", " ", "3", " ", "m", "o", "n", "t", "h", "s", "?">>,
     <<" ", " ", "\n">>}

\* the texts passed to summarize
SumTexts == FragTexts(SumFrags, MaxSumFrags)

\* what the seq2seq model can generate, decoded
ModelOutputs ==
    {<<>>,
     <<"S", "U", "M", "M", "A", "R", "Y", ":", " ", "S", "t", "a", "b", "l", "e", ".", " ", "N", "o", " ", "c", "h", "a", "n", "g", "e", ".", " ", "D", "o", "n", "e", ".", " ", "E", "x", "t", "r", "a", ".">>,
     <<" ", "F", "i", "n", "d", "i", "n", "g", "s", " ", "-", " ", "m", "a", "s", "s", ".", "\n">>}

\* clean, for each of the texts
CleanOf == [t \in RiskTexts \cup SumTexts \cup RunAnonyms |-> Clean(t)]

\* the length below which summarize returns the text itself
ShortTextLen == 20

\* the mode summarize returns in its metadata when no collaborator raises
SummarizeMode(ok, text) ==
    IF Len(CleanOf[text]) < ShortTextLen THEN "passthrough"
    ELSE IF ok THEN "abstractive"
    ELSE "extractive"

-----------------------------------------------------------------------------
(* Summarizer: sentences and scores *)

\* sep.join(parts)
RECURSIVE JoinWith(_, _)
JoinWith(sep, parts) ==
    IF parts = <<>> THEN <<>>
    ELSE IF Len(parts) = 1 THEN parts[1]
    ELSE parts[1] \o sep \o JoinWith(sep, Tail(parts))

\* the pieces of txt between the matches ms
ReSplitAt(ms, txt) ==
    [k \in 1..(Len(ms) + 1) |->
        Slice(txt, IF k = 1 THEN 0 ELSE ms[k - 1][2],
                   IF k > Len(ms) THEN Len(txt) ELSE ms[k][1])]

\* re.split(rx, txt) for a pattern without groups
ReSplit(rx, txt) == ReSplitAt(FindIter(rx, txt, FALSE), txt)

\* [s.strip() for s in parts]
StripAll(parts) == [k \in DOMAIN parts |-> Strip(parts[k])]

\* (?<=[.!?])\s+
RxSentenceGap == Cat(<<Behind(<<Class({".", "!", "?"})>>), Plus(Set(Space))>>)

\* the smallest element of a non-empty set of numbers
Least(S) == CHOOSE x \in S : \A y \in S : x <= y

RECURSIVE WordsFrom(_, _)
\* the word txt[s..e], and the words behind it
WordsTo(txt, s, e) == <<SubSeq(txt, s, e)>> \o WordsFrom(txt, e)

\* the word that begins at s, and the words behind it
WordsBetween(txt, s) ==
    WordsTo(txt, s, Least({j \in s..Len(txt) : j = Len(txt) \/ txt[j + 1] \in Space}))

\* the words of txt that begin at one of starts
WordsAt(txt, starts) ==
    IF starts = {} THEN <<>> ELSE WordsBetween(txt, Least(starts))

\* the words of txt behind offset i
WordsFrom(txt, i) == WordsAt(txt, {j \in (i + 1)..Len(txt) : txt[j] \notin Space})

\* str.split()
Words(txt) == WordsFrom(txt, 0)

\* KEY_BOOSTS, the weights in tenths
KEY_BOOSTS ==
    <<[k |-> <<"p", "n", "e", "u", "m", "o", "n", "i", "a">>, wt |-> 16],
      [k |-> <<"h", "e", "m", "o", "r", "r", "h", "a", "g", "e">>, wt |-> 18],
      [k |-> <<"m", "a", "l", "i", "g", "n", "a", "n", "t">>, wt |-> 17],
      [k |-> <<"m", "a", "s", "s">>, wt |-> 15],
      [k |-> <<"e", "f", "f", "u", "s", "i", "o", "n">>, wt |-> 14],
      [k |-> <<"c", "a", "r", "d", "i", "o", "m", "e", "g", "a", "l", "y">>, wt |-> 14],
      [k |-> <<"c", "o", "n", "s", "o", "l", "i", "d", "a", "t", "i", "o", "n">>, wt |-> 15],
      [k |-> <<"f", "r", "a", "c", "t", "u", "r", "e">>, wt |-> 16],
      [k |-> <<"i", "s", "c", "h", "e", "m", "i", "a">>, wt |-> 17],
      [k |-> <<"e", "m", "b", "o", "l", "i", "s", "m">>, wt |-> 18]>>

RECURSIVE BoostSum(_, _)
\* sum(wt for k, wt in KEY_BOOSTS.items() if k in s.lower()) over the first
\* n keys, in tenths; s_l is s.lower()
BoostSum(s_l, n) ==
    IF n = 0 THEN 0
    ELSE BoostSum(s_l, n - 1)
            + (IF Contains(s_l, KEY_BOOSTS[n].k) THEN KEY_BOOSTS[n].wt ELSE 0)

\* math.log(n) in thousandths, for n = 1..32
LogMilli ==
    <<0, 693, 1099, 1386, 1609, 1792, 1946, 2079, 2197, 2303, 2398, 2485, 2565, 2639, 2708,
      2773, 2833, 2890, 2944, 2996, 3045, 3091, 3135, 3178, 3219, 3258, 3296, 3332, 3367, 3401, 3434, 3466>>

\* score(idx, s) as the fraction num / den:
\* base = LogMilli / 1000, pos = 100 / (100 + 15 idx),
\* boost = (1000 + 15 tenths) / 1000
Score(idx, s) ==
    [num |-> LogMilli[Len(Words(s)) + 1]
                * (1000 + 15 * BoostSum(LowerText(s), Len(KEY_BOOSTS))),
     den |-> 100 + 15 * idx]

\* the characters in the order of their code points
OrdSeq ==
    <<"\t", "\n", "\f", "\r", " ", "!", "#", "%", "(", ")", "+", ",", "-", ".", "/">>
        \o DigitSeq \o <<":", ";", "<", ">", "?", "@">> \o UpperSeq \o <<"_">>
        \o LowerSeq

\* the rank of the code point of c
Ord(c) ==
    IF \E i \in DOMAIN OrdSeq : OrdSeq[i] = c
    THEN CHOOSE i \in DOMAIN OrdSeq : OrdSeq[i] = c
    ELSE 0

\* a < b for strings
StrLess(a, b) ==
    \E k \in 1..(Len(b)) :
        /\ \A j \in 1..(k - 1) : j <= Len(a) /\ a[j] = b[j]
        /\ k - 1 <= Len(a)
        /\ k > Len(a) \/ Ord(a[k]) < Ord(b[k])

\* (score, s) of a < (score, s) of b, as Python compares tuples
ScoredLess(a, b) ==
    \/ a.score.num * b.score.den < b.score.num * a.score.den
    \/ /\ a.score.num * b.score.den = b.score.num * a.score.den
       /\ StrLess(a.s, b.s)

\* x put into the descending sequence q
InsertScored(q, x) ==
    LET k == Cardinality({i \in DOMAIN q : ~ScoredLess(q[i], x)})
    IN  SubSeq(q, 1, k) \o <<x>> \o SubSeq(q, k + 1, Len(q))

RECURSIVE SortScored(_)
\* sorted(q, reverse=True)
SortScored(q) ==
    IF q = <<>> THEN <<>> ELSE InsertScored(SortScored(Tail(q)), Head(q))

\* max_sents, the default of extractive_summary
max_sents == 3

\* sents of extractive_summary: the stripped pieces longer than 3 characters
LongSents(text) ==
    SelectSeq(StripAll(ReSplit(RxSentenceGap, text)), LAMBDA s : Len(s) > 3)

\* the first n of q
FirstN(q, n) == SubSeq(q, 1, IF Len(q) < n THEN Len(q) ELSE n)

\* " ".join(top) for the sentences sents
JoinTop(sents) ==
    JoinWith(<<" ">>,
             [k \in DOMAIN FirstN(sents, max_sents) |->
                 FirstN(SortScored([i \in DOMAIN sents |->
                                      [score |-> Score(i - 1, sents[i]),
                                       s |-> sents[i]]]),
                        max_sents)[k].s])

\* what extractive_summary returns for the sentences sents of text
ExtractiveOf(text, sents) == IF sents = <<>> THEN text ELSE JoinTop(sents)

\* extractive_summary(text)
extractive_summary(text) == ExtractiveOf(text, LongSents(text))

\* ^(SUMMARY|FINDINGS|IMPRESSION)[:\-]\s*
RxLabel ==
    Cat(<<Bos,
          Alt(<<Lit(<<"S", "U", "M", "M", "A", "R", "Y">>),
                Lit(<<"F", "I", "N", "D", "I", "N", "G", "S">>),
                Lit(<<"I", "M", "P", "R", "E", "S", "S", "I", "O", "N">>)>>),
          Set({":", "-"}), Star(Set(Space))>>)

\* the text without the label at its beginning
WithoutLabel(text) == SubConstAt(FindIter(RxLabel, text, TRUE), <<>>, text)

\* the non-empty stripped sentences of text
SomeSents(text) ==
    SelectSeq(StripAll(ReSplit(RxSentenceGap, text)), LAMBDA s : s # <<>>)

\* _post_summarize
PostSummarize(text) ==
    JoinWith(<<" ">>,
             FirstN(SomeSents(WithoutLabel(
                        Strip(SubConst(Plus(Set(Space)), <<" ">>, text)))), 3))

-----------------------------------------------------------------------------
(* Segmenter *)

\* _SENT_SPLIT_FALLBACK: (?<!\w\.\w.)(?<![A-Z][a-z]\.)(?<=\.|\?)\s
RxSentSplitFallback ==
    Cat(<<NotBehind(<<Class(WordChar), Class({"."}), Class(WordChar), Dot>>),
          NotBehind(<<Class(Upper), Class(Lower), Class({"."})>>),
          Behind(<<Class({".", "?"})>>),
          Set(Space)>>)

\* the except branch of split_sentences
SplitFallback(text) ==
    SelectSeq(StripAll(ReSplit(RxSentSplitFallback, text)), LAMBDA s : s # <<>>)

\* the try branch of split_sentences, sent_tokenize having returned sents
SplitPrimary(sents) == SelectSeq(StripAll(sents), LAMBDA s : Len(s) > 1)

\* what sent_tokenize(text) can return: the tokenizer is a collaborator
\* that breaks the text at some of the gaps behind ".", "!" or "?"
SentTokenize(text) ==
    {ReSplitAt(SelectSeq(FindIter(RxSentenceGap, text, FALSE),
                         LAMBDA m : m \in chosen), text) :
        chosen \in SUBSET {FindIter(RxSentenceGap, text, FALSE)[k] :
                             k \in DOMAIN FindIter(RxSentenceGap, text, FALSE)}}

\* split_sentences(text): tokenizeRaises says whether the import or
\* sent_tokenize raises, sents is what sent_tokenize returns otherwise
split_sentences(text, tokenizeRaises, sents) ==
    IF Strip(text) = <<>> THEN <<>>
    ELSE IF tokenizeRaises THEN SplitFallback(text)
    ELSE SplitPrimary(sents)

\* the path split_sentences takes
SplitPath(text, tokenizeRaises) ==
    IF Strip(text) = <<>> THEN "empty"
    ELSE IF tokenizeRaises THEN "fallback"
    ELSE "primary"

\* the largest number of fragments a text to split is put together from
MaxSegFrags == 2

\* the pieces the texts to split are put together from
SegFrags ==
    {<<"Y", "e", "s", ".">>,
     <<" ", "5">>,
     <<"N", "o", " ", "a", "c", "u", "t", "e", " ", "d", "i", "s", "e", "a", "s", "e", ".", " ">>,
     <<"D", "r", ".", " ", "L", "e", "e", " ", "s", "a", "w", " ", "p", "t", ".">>,
     <<" ", "e", ".", "g", ".", " ", "a", " ", "m", "a", "s", "s", "?", " ">>,
     <<" ", "\n">>}

\* the texts passed to split_sentences
SegTexts == FragTexts(SegFrags, MaxSegFrags)

NoSegCall == [text |-> <<>>, done |-> FALSE, path |-> "", sents |-> <<>>]

SegIdle == segCall = NoSegCall

\* a caller is about to call split_sentences(segCall.text)
InitSeg == segCall \in {[NoSegCall EXCEPT !.text = t] : t \in SegTexts}

\* split_sentences(segCall.text) runs and returns
CallSplitSentences(tokenizeRaises, sents) ==
    /\ ~segCall.done
    /\ segCall' = [segCall EXCEPT
                      !.done = TRUE,
                      !.path = SplitPath(segCall.text, tokenizeRaises),
                      !.sents = split_sentences(segCall.text, tokenizeRaises, sents)]

-----------------------------------------------------------------------------
(* Summarizer: prompt and truncation *)

\* the text of PROMPTS["radiology_brief"] before {input}
PromptRadiology ==
    <<"Y", "o", "u", " ", "a", "r", "e", " ", "a", " ", "s", "e", "n", "i", "o", "r",
      " ", "r", "a", "d", "i", "o", "l", "o", "g", "i", "s", "t", ".", "\n", "S", "u",
      "m", "m", "a", "r", "i", "z", "e", " ", "t", "h", "e", " ", "F", "I", "N", "D",
      "I", "N", "G", "S", "/", "I", "M", "P", "R", "E", "S", "S", "I", "O", "N", " ",
      "i", "n", " ", "2", "-", "3", " ", "c", "r", "i", "s", "p", " ", "s", "e", "n",
      "t", "e", "n", "c", "e", "s", " ", "w", "i", "t", "h", " ", "c", "l", "i", "n",
      "i", "c", "a", "l", " ", "p", "r", "e", "c", "i", "s", "i", "o", "n", ".", "\n",
      "A", "v", "o", "i", "d", " ", "P", "H", "I", ",", " ", "a", "v", "o", "i", "d",
      " ", "s", "p", "e", "c", "u", "l", "a", "t", "i", "o", "n", ",", " ", "n", "o",
      " ", "r", "e", "c", "o", "m", "m", "e", "n", "d", "a", "t", "i", "o", "n", "s",
      ",", " ", "j", "u", "s", "t", " ", "t", "h", "e", " ", "k", "e", "y", " ", "f",
      "i", "n", "d", "i", "n", "g", "s", ".", "\n", "\n", "R", "E", "P", "O", "R", "T",
      ":", "\n">>

\* the text of PROMPTS["pathology_brief"] before {input}
PromptPathology ==
    <<"Y", "o", "u", " ", "a", "r", "e", " ", "a", " ", "s", "e", "n", "i", "o", "r",
      " ", "p", "a", "t", "h", "o", "l", "o", "g", "i", "s", "t", ".", " ", "P", "r",
      "o", "v", "i", "d", "e", " ", "a", " ", "c", "o", "n", "c", "i", "s", "e", " ",
      "2", "-", "3", " ", "s", "e", "n", "t", "e", "n", "c", "e", " ", "s", "u", "m",
      "m", "a", "r", "y", " ", "o", "f", " ", "k", "e", "y", " ", "p", "a", "t", "h",
      "o", "l", "o", "g", "y", " ", "f", "i", "n", "d", "i", "n", "g", "s", ".", "\n",
      "S", "t", "i", "c", "k", " ", "t", "o", " ", "f", "a", "c", "t", "s", " ", "p",
      "r", "e", "s", "e", "n", "t", " ", "i", "n", " ", "t", "h", "e", " ", "t", "e",
      "x", "t", ".", " ", "A", "v", "o", "i", "d", " ", "P", "H", "I", ".", "\n", "\n",
      "R", "E", "P", "O", "R", "T", ":", "\n">>

\* the text of PROMPTS["generic_clinical"] before {input}
PromptGeneric ==
    <<"P", "r", "o", "v", "i", "d", "e", " ", "a", " ", "c", "o", "n", "c", "i", "s",
      "e", " ", "m", "e", "d", "i", "c", "a", "l", " ", "s", "u", "m", "m", "a", "r",
      "y", " ", "(", "2", "-", "3", " ", "s", "e", "n", "t", "e", "n", "c", "e", "s",
      ")", " ", "o", "f", " ", "t", "h", "e", " ", "f", "o", "l", "l", "o", "w", "i",
      "n", "g", " ", "c", "l", "i", "n", "i", "c", "a", "l", " ", "n", "o", "t", "e",
      ".", "\n", "A", "v", "o", "i", "d", " ", "P", "H", "I", " ", "a", "n", "d", " ",
      "a", "v", "o", "i", "d", " ", "r", "e", "c", "o", "m", "m", "e", "n", "d", "a",
      "t", "i", "o", "n", "s", ".", "\n", "\n", "N", "O", "T", "E", ":", "\n">>

\* the text of every prompt behind {input}
PromptEnd ==
    <<"\n", "\n", "S", "U", "M", "M", "A", "R", "Y", ":">>

\* PROMPTS: the text before and the text behind {input}
PROMPTS ==
    [radiology_brief |-> <<PromptRadiology, PromptEnd>>,
     pathology_brief |-> <<PromptPathology, PromptEnd>>,
     generic_clinical |-> <<PromptGeneric, PromptEnd>>]

\* PROMPTS.get(style, PROMPTS["generic_clinical"])
Template(style) ==
    IF style \in DOMAIN PROMPTS THEN PROMPTS[style] ELSE PROMPTS["generic_clinical"]

\* Summarizer._prompt
Prompt(style, text) == Template(style)[1] \o text \o Template(style)[2]

\* tokenizer.encode(text, add_special_tokens=False): the tokens of the
\* collaborator are the words of the text
Encode(text) == Words(text)

\* tokenizer.decode(tokens)
Decode(tokens) == JoinWith(<<" ">>, tokens)

\* q[:n]
PyUpTo(q, n) ==
    IF n >= 0 THEN SubSeq(q, 1, IF n < Len(q) THEN n ELSE Len(q))
    ELSE SubSeq(q, 1, Len(q) + n)

\* q[n:]
PyFrom(q, n) ==
    IF n >= 0 THEN SubSeq(q, n + 1, Len(q))
    ELSE SubSeq(q, Max(Len(q) + n, 0) + 1, Len(q))

\* math.floor(max_input_tokens * 0.6)
HeadLen(max_input_tokens) == (max_input_tokens * 6) \div 10

\* tokens[:head] + tokens[-tail:]
KeepHeadTail(max_input_tokens, tokens) ==
    PyUpTo(tokens, HeadLen(max_input_tokens))
        \o PyFrom(tokens, 0 - (max_input_tokens - HeadLen(max_input_tokens)))

\* _truncate_by_tokens for the tokens of text
TruncateTokens(max_input_tokens, text, tokens) ==
    IF Len(tokens) <= max_input_tokens THEN text
    ELSE Decode(KeepHeadTail(max_input_tokens, tokens))

\* Summarizer._truncate_by_tokens
TruncateByTokens(ok, max_input_tokens, text) ==
    IF ~ok THEN text ELSE TruncateTokens(max_input_tokens, text, Encode(text))

-----------------------------------------------------------------------------
(* Analyzer: construction and calls *)

\* the default risk_labels_csv, and one that differs from the keys of the
\* heuristic prior in both directions
LabelConfigs ==
    {<<LOW, MODERATE, HIGH>>, <<LOW, HIGH, "critical risk">>}

\* the multiples of 1/ThDen in [0, 1]
Thresholds == {<<k, ThDen>> : k \in 0..ThDen}

\* the pairs <<risk_threshold_high, risk_threshold_moderate>>
ThresholdPairs == (Thresholds \X Thresholds) \cup {<<DefaultThHigh, DefaultThModerate>>}

RiskCfgs ==
    {[labels |-> l, th_high |-> th[1], th_mod |-> th[2], use_heuristics |-> h] :
        l \in LabelConfigs, th \in ThresholdPairs, h \in BOOLEAN}

DefaultRiskCfg ==
    [labels |-> <<LOW, MODERATE, HIGH>>, th_high |-> DefaultThHigh,
     th_mod |-> DefaultThModerate, use_heuristics |-> TRUE]

NoMeta == [model |-> "", heuristics |-> "", labels |-> <<>>]

NoCall ==
    [kind |-> "none", outcome |-> "none", text |-> <<>>, label |-> "", top |-> "",
     probs |-> EmptyDist, base |-> EmptyDist, model |-> EmptyDist, fused |-> FALSE,
     meta |-> NoMeta, mode |-> "", summary |-> <<>>, sum_model |-> "",
     trunc |-> <<>>]

\* "google/flan-t5-base", the default of summarizer_model
SummarizerModelName == "google/flan-t5-base"

\* the token budgets
Budgets == {0, 1, 3, 5, 35, 2048}

\* Summarizer.cfg, as far as summarize reads it
SumCfgs ==
    {[max_input_tokens |-> b, prompt_style |-> "radiology_brief"] : b \in Budgets}
        \cup {[max_input_tokens |-> 2048, prompt_style |-> "discharge_brief"]}

DefaultSumCfg == [max_input_tokens |-> 2048, prompt_style |-> "radiology_brief"]

\* AnalysisOutput before run has returned
NoOutput ==
    [summary |-> <<>>, risk_level |-> "", risk_probs |-> EmptyDist, sentences |-> <<>>,
     anonymized |-> <<>>,
     meta |-> [phi |-> <<>>, summ_mode |-> "", summ_model |-> "", risk |-> NoMeta]]

\* the number of callers of Analyzer.run on the one Analyzer of the process
NumCallers == 2

Callers == 1..NumCallers

\* a caller that has not entered run: pc is the position in run, raw the
\* text argument, the other fields are the locals of run and the arguments
\* its callees received
NoRun ==
    [pc |-> "start", raw |-> <<>>, anonym |-> <<>>, counts |-> <<>>,
     seg_arg |-> <<>>, sents |-> <<>>, sum |-> NoCall, tag |-> NoCall,
     premise |-> <<>>, out |-> NoOutput]

\* no call of Analyzer.run is in progress
NoRuns == <<>>

\* no load has been attempted
NoLoads == [nli |-> 0, seq2seq |-> 0, nliRaised |-> FALSE, seq2seqRaised |-> FALSE]

RiskIdle ==
    /\ riskCfg = DefaultRiskCfg
    /\ phase = "new"
    /\ nli_ok = FALSE
    /\ abstractive_ok = FALSE
    /\ loads = NoLoads
    /\ sumCfg = DefaultSumCfg
    /\ lastCall = NoCall
    /\ run = NoRuns

\* the process has its configuration; Analyzer() has not run yet
InitRisk ==
    /\ riskCfg \in RiskCfgs
    /\ phase = "new"
    /\ nli_ok = FALSE
    /\ abstractive_ok = FALSE
    /\ loads = NoLoads
    /\ sumCfg = DefaultSumCfg
    /\ lastCall = NoCall
    /\ run = NoRuns

\* the process has the configuration of its summarizer
InitSum ==
    /\ riskCfg = DefaultRiskCfg
    /\ phase = "new"
    /\ nli_ok = FALSE
    /\ abstractive_ok = FALSE
    /\ loads = NoLoads
    /\ sumCfg \in SumCfgs
    /\ lastCall = NoCall
    /\ run = NoRuns

\* the flag a constructor sets: True after the load, False in the except branch
LoadedFlag(loadRaises) == ~loadRaises

\* Analyzer.__init__: Summarizer() loads the seq2seq model and RiskTagger()
\* the NLI model; either load can raise
Construct(seq2seqRaises, nliRaises) ==
    /\ phase = "new"
    /\ phase' = "ready"
    /\ abstractive_ok' = LoadedFlag(seq2seqRaises)
    /\ nli_ok' = LoadedFlag(nliRaises)
    /\ loads' = [nli |-> loads.nli + 1, seq2seq |-> loads.seq2seq + 1,
                 nliRaised |-> nliRaises, seq2seqRaised |-> seq2seqRaises]
    /\ UNCHANGED <<riskCfg, sumCfg, lastCall, run>>

\* what tag returns when its distributions are tp and max() returns top
TagReturn(cfg, ok, text, tp, top) ==
    [kind |-> "tag", outcome |-> "returned", text |-> text,
     label |-> ChooseLabel(tp.probs, top, cfg.th_high, cfg.th_mod),
     top |-> top, probs |-> tp.probs, base |-> tp.base,
     model |-> tp.model, fused |-> tp.fused,
     meta |-> TagMeta(cfg, ok), mode |-> "", summary |-> <<>>, sum_model |-> "",
     trunc |-> <<>>]

\* RiskTagger.tag(text).  scores are the entailment probabilities the
\* classifier returns, inferenceRaises says whether the tokenizer or the
\* classifier raises; neither is used when the classifier is not loaded.
Tag(text, scores, inferenceRaises) ==
    /\ phase = "ready"
    /\ nli_ok \/ (~inferenceRaises /\ \A k \in DOMAIN scores : scores[k] = 0)
    /\ IF nli_ok /\ inferenceRaises
       THEN lastCall' = [NoCall EXCEPT !.kind = "tag", !.outcome = "raised",
                                       !.text = text]
       ELSE \E tp \in {TagProbs(riskCfg, nli_ok, text, scores)} :
                \E top \in TopLabels(tp) :
                    lastCall' = TagReturn(riskCfg, nli_ok, text, tp, top)
    /\ UNCHANGED <<riskCfg, phase, nli_ok, abstractive_ok, loads, sumCfg, run>>

\* trunc = self._truncate_by_tokens(self._prompt(clean)) with the model loaded
TruncatedPrompt(cfg, clean) ==
    TruncateByTokens(TRUE, cfg.max_input_tokens, Prompt(cfg.prompt_style, clean))

\* the tokens of the prompt, for each prompt style in use and each text
PromptTokensOf ==
    [style \in {c.prompt_style : c \in SumCfgs \cup {DefaultSumCfg}} |->
        [t \in DOMAIN CleanOf |-> Encode(Prompt(style, CleanOf[t]))]]

\* trunc, for each configuration and text: TruncatedPrompt, the prompt
\* being encoded once for all budgets
TruncatedPromptOf ==
    [c \in SumCfgs \cup {DefaultSumCfg} |->
        [t \in DOMAIN CleanOf |->
            TruncateTokens(c.max_input_tokens, Prompt(c.prompt_style, CleanOf[t]),
                           PromptTokensOf[c.prompt_style][t])]]

\* extractive_summary(clean), for each of the texts
ExtractiveSummaryOf ==
    [t \in DOMAIN CleanOf |-> extractive_summary(CleanOf[t])]

\* _post_summarize of the decoded and stripped output, for each output
PostSummarizeOf == [g \in ModelOutputs |-> PostSummarize(Strip(g))]

\* the abstractive path of summarize: the prompt is cut to the budget and
\* handed to the model, which raises or generates gen
Abstractive(cfg, text, gen, generateRaises) ==
    [NoCall EXCEPT
        !.kind = "summarize", !.text = text,
        !.outcome = IF generateRaises THEN "raised" ELSE "returned",
        !.mode = IF generateRaises THEN "" ELSE "abstractive",
        !.summary = IF generateRaises THEN <<>> ELSE PostSummarizeOf[gen],
        !.sum_model = IF generateRaises THEN "" ELSE SummarizerModelName,
        !.trunc = TruncatedPromptOf[cfg][text]]

\* what summarize does with clean, the text with its whitespace reduced
SummarizeClean(cfg, ok, text, clean, gen, generateRaises) ==
    IF Len(clean) < ShortTextLen
    THEN [NoCall EXCEPT !.kind = "summarize", !.text = text,
                        !.outcome = "returned", !.mode = "passthrough",
                        !.summary = clean]
    ELSE IF ok THEN Abstractive(cfg, text, gen, generateRaises)
    ELSE [NoCall EXCEPT !.kind = "summarize", !.text = text,
                        !.outcome = "returned", !.mode = "extractive",
                        !.summary = ExtractiveSummaryOf[text],
                        !.sum_model = "fallback"]

\* Summarizer.summarize(text, report_type).  gen is what the model
\* generates and generateRaises says whether the tokenizer or generate
\* raises; neither is used off the abstractive path.
Summarize(text, gen, generateRaises) ==
    /\ phase = "ready"
    /\ generateRaises => SummarizeMode(abstractive_ok, text) = "abstractive"
    /\ (generateRaises \/ SummarizeMode(abstractive_ok, text) # "abstractive")
          => gen = <<>>
    /\ lastCall' = SummarizeClean(sumCfg, abstractive_ok, text, CleanOf[text], gen,
                                  generateRaises)
    /\ UNCHANGED <<riskCfg, phase, nli_ok, abstractive_ok, loads, sumCfg, run>>

\* Summarizer._truncate_by_tokens(text)
Truncate(text) ==
    /\ phase = "ready"
    /\ lastCall' = [NoCall EXCEPT
                       !.kind = "truncate", !.text = text, !.outcome = "returned",
                       !.trunc = TruncateByTokens(abstractive_ok,
                                                  sumCfg.max_input_tokens, text)]
    /\ UNCHANGED <<riskCfg, phase, nli_ok, abstractive_ok, loads, sumCfg, run>>

-----------------------------------------------------------------------------
(* Analyzer.run, called by several callers *)

\* every caller is about to call analyzer.run(raw, report_type); the
\* Analyzer of the process has not been constructed yet
InitRun ==
    /\ settings \in RunSettings
    /\ anonText = <<>>
    /\ anonResult = NoAnonResult
    /\ anonLog = <<>>
    /\ riskCfg = DefaultRiskCfg
    /\ phase = "new"
    /\ nli_ok = FALSE
    /\ abstractive_ok = FALSE
    /\ loads = NoLoads
    /\ sumCfg = DefaultSumCfg
    /\ lastCall = NoCall
    /\ run \in [Callers -> {[NoRun EXCEPT !.raw = t] : t \in RunTexts}]

\* the entailment scores the classifier returns inside run
RunScores ==
    {[l \in {LOW, MODERATE, HIGH} |-> 1],
     [l \in {LOW, MODERATE, HIGH} |-> IF l = HIGH THEN 1 ELSE 0]}

\* the length of the premise tag passes to the classifier
PremiseLen == 2000

\* anonym, counts = anonymize(text)
RunAnonymize(c) ==
    /\ phase = "ready"
    /\ run[c].pc = "start"
    /\ run' = [run EXCEPT ![c].pc = "anonymized",
                          ![c].anonym = AnonymizeOf[settings][run[c].raw].text,
                          ![c].counts = AnonymizeOf[settings][run[c].raw].counts]
    /\ UNCHANGED <<anonVars, hlVars, segVars, riskCfg, phase, nli_ok, abstractive_ok,
                   loads, sumCfg, lastCall>>

\* split_sentences(t) for each anonymized text t, for each way the
\* tokenizer can behave
SplitSentencesOf ==
    [t \in RunAnonyms |->
        [tokenizeRaises \in BOOLEAN |->
            [sents \in (IF tokenizeRaises THEN {<<>>} ELSE SentTokenize(t)) |->
                split_sentences(t, tokenizeRaises, sents)]]]

\* a split that is handed the text argument of run instead of anonym
RunSplitRaw(c, tokenizeRaises, sents) ==
    /\ phase = "ready"
    /\ run[c].pc = "anonymized"
    /\ run' = [run EXCEPT ![c].pc = "split",
                          ![c].seg_arg = run[c].raw,
                          ![c].sents = split_sentences(run[c].raw, tokenizeRaises,
                                                       sents)]
    /\ UNCHANGED <<anonVars, hlVars, segVars, riskCfg, phase, nli_ok, abstractive_ok,
                   loads, sumCfg, lastCall>>

\* sents = split_sentences(anonym)
RunSplit(c, tokenizeRaises, sents) ==
    /\ phase = "ready"
    /\ run[c].pc = "anonymized"
    /\ run' = [run EXCEPT ![c].pc = "split",
                          ![c].seg_arg = run[c].anonym,
                          ![c].sents =
                              SplitSentencesOf[run[c].anonym][tokenizeRaises][sents]]
    /\ UNCHANGED <<anonVars, hlVars, segVars, riskCfg, phase, nli_ok, abstractive_ok,
                   loads, sumCfg, lastCall>>

\* a summarize call that marks the model unavailable when generate raises
RunSummarizeRetiring(c, gen, generateRaises) ==
    /\ phase = "ready"
    /\ run[c].pc = "split"
    /\ generateRaises => SummarizeMode(abstractive_ok, run[c].anonym) = "abstractive"
    /\ (generateRaises \/ SummarizeMode(abstractive_ok, run[c].anonym) # "abstractive")
          => gen = <<>>
    /\ run' = [run EXCEPT
                  ![c].pc = IF generateRaises THEN "raised" ELSE "summarized",
                  ![c].sum = SummarizeClean(sumCfg, abstractive_ok, run[c].anonym,
                                            CleanOf[run[c].anonym], gen,
                                            generateRaises)]
    /\ abstractive_ok' = (abstractive_ok /\ ~generateRaises)
    /\ UNCHANGED <<anonVars, hlVars, segVars, riskCfg, phase, nli_ok, loads, sumCfg,
                   lastCall>>

\* summary, s_meta = self.summarizer.summarize(anonym, report_type); an
\* exception of the model leaves run
RunSummarize(c, gen, generateRaises) ==
    /\ phase = "ready"
    /\ run[c].pc = "split"
    /\ generateRaises => SummarizeMode(abstractive_ok, run[c].anonym) = "abstractive"
    /\ (generateRaises \/ SummarizeMode(abstractive_ok, run[c].anonym) # "abstractive")
          => gen = <<>>
    /\ run' = [run EXCEPT
                  ![c].pc = IF generateRaises THEN "raised" ELSE "summarized",
                  ![c].sum = SummarizeClean(sumCfg, abstractive_ok, run[c].anonym,
                                            CleanOf[run[c].anonym], gen,
                                            generateRaises)]
    /\ UNCHANGED <<anonVars, hlVars, segVars, riskCfg, phase, nli_ok, abstractive_ok,
                   loads, sumCfg, lastCall>>

\* AnalysisOutput(...) and the meta dict of run
Output(anonym, counts, sents, sum, tag) ==
    [summary |-> sum.summary, risk_level |-> tag.label, risk_probs |-> tag.probs,
     sentences |-> sents, anonymized |-> anonym,
     meta |-> [phi |-> counts, summ_mode |-> sum.mode, summ_model |-> sum.sum_model,
               risk |-> tag.meta]]

\* the caller c after tag returned tagged: run builds its result and returns
ReturnedRun(r, tagged) ==
    [r EXCEPT !.pc = "done", !.tag = tagged,
              !.premise = FirstN(r.anonym, PremiseLen),
              !.out = Output(r.anonym, r.counts, r.sents, r.sum, tagged)]

\* risk_label, probs, r_meta = self.risk.tag(anonym), and the return of
\* run; an exception of the classifier leaves run
RunTag(c, scores, inferenceRaises) ==
    /\ phase = "ready"
    /\ run[c].pc = "summarized"
    /\ nli_ok \/ (~inferenceRaises /\ \A k \in DOMAIN scores : scores[k] = 1)
    /\ IF nli_ok /\ inferenceRaises
       THEN run' = [run EXCEPT
                       ![c].pc = "raised",
                       ![c].premise = FirstN(run[c].anonym, PremiseLen),
                       ![c].tag = [NoCall EXCEPT !.kind = "tag", !.outcome = "raised",
                                                 !.text = run[c].anonym]]
       ELSE \E top \in TopLabels(TagProbs(riskCfg, nli_ok, run[c].anonym, scores)) :
               run' = [run EXCEPT
                          ![c] = ReturnedRun(run[c],
                                            TagReturn(riskCfg, nli_ok, run[c].anonym,
                                                      TagProbs(riskCfg, nli_ok,
                                                               run[c].anonym, scores),
                                                      top))]
    /\ UNCHANGED <<anonVars, hlVars, segVars, riskCfg, phase, nli_ok, abstractive_ok,
                   loads, sumCfg, lastCall>>

-----------------------------------------------------------------------------
(* Specifications *)

NextAnon == CallAnonymize /\ UNCHANGED <<hlVars, segVars, riskVars>>

\* only the anonymizer is in use
StartAnon == InitAnon /\ HlIdle /\ SegIdle /\ RiskIdle

\* calls of anonymize
SpecAnon == StartAnon /\ [][NextAnon]_vars

NextRepeat ==
    \/ CallAnonymize /\ UNCHANGED <<hlVars, segVars, riskVars>>
    \/ /\ \E text \in RepeatTexts : AnotherCall(text)
       /\ UNCHANGED <<hlVars, segVars, riskVars>>

\* one process calls anonymize up to MaxCalls times
StartRepeat == InitRepeat /\ HlIdle /\ SegIdle /\ RiskIdle

\* repeated calls of anonymize under the same settings
SpecRepeat == StartRepeat /\ [][NextRepeat]_vars

NextHl == CallCollectMatches /\ UNCHANGED <<anonVars, segVars, riskVars>>

\* only the highlighter is in use
StartHl == InitHl /\ AnonIdle /\ SegIdle /\ RiskIdle

NextSeg ==
    /\ \E tokenizeRaises \in BOOLEAN :
          \E sents \in (IF tokenizeRaises THEN {<<>>}
                        ELSE SentTokenize(segCall.text)) :
              CallSplitSentences(tokenizeRaises, sents)
    /\ UNCHANGED <<anonVars, hlVars, riskVars>>

\* only the segmenter is in use
StartSeg == InitSeg /\ AnonIdle /\ HlIdle /\ RiskIdle

\* calls of split_sentences
SpecSeg == StartSeg /\ [][NextSeg]_vars

\* calls of _collect_matches
SpecHl == StartHl /\ [][NextHl]_vars

NextResolve == ResolveFound /\ UNCHANGED <<anonVars, segVars, riskVars>>

\* only the overlap resolution of the highlighter is in use
StartResolve == InitResolve /\ AnonIdle /\ SegIdle /\ RiskIdle

\* the overlap resolution of _collect_matches on any candidate spans
SpecResolve == StartResolve /\ [][NextResolve]_vars

NextRisk ==
    \/ /\ \E seq2seqRaises, nliRaises \in BOOLEAN : Construct(seq2seqRaises, nliRaises)
       /\ UNCHANGED <<anonVars, hlVars, segVars>>
    \/ /\ \E text \in RiskTexts, inferenceRaises \in BOOLEAN :
            \E scores \in [{riskCfg.labels[i] : i \in DOMAIN riskCfg.labels}
                             -> 0..ScoreMax] :
                Tag(text, scores, inferenceRaises)
       /\ UNCHANGED <<anonVars, hlVars, segVars>>
    \/ /\ \E text \in RiskTexts, gen \in ModelOutputs, generateRaises \in BOOLEAN :
            Summarize(text, gen, generateRaises)
       /\ UNCHANGED <<anonVars, hlVars, segVars>>

\* only the analyzer's tagger and summarizer are in use
Init == InitRisk /\ AnonIdle /\ HlIdle /\ SegIdle

Next == NextRisk

\* an Analyzer is constructed and its tagger and summarizer are called
SpecRisk == Init /\ [][Next]_vars

Spec == SpecRisk

NextSum ==
    \/ /\ \E seq2seqRaises, nliRaises \in BOOLEAN : Construct(seq2seqRaises, nliRaises)
       /\ UNCHANGED <<anonVars, hlVars, segVars>>
    \/ /\ lastCall.kind = "none"
       /\ \E text \in SumTexts, gen \in ModelOutputs, generateRaises \in BOOLEAN :
            Summarize(text, gen, generateRaises)
       /\ UNCHANGED <<anonVars, hlVars, segVars>>
    \/ /\ lastCall.kind = "none"
       /\ \E text \in SumTexts : Truncate(text)
       /\ UNCHANGED <<anonVars, hlVars, segVars>>

NextRun ==
    \/ /\ \E seq2seqRaises, nliRaises \in BOOLEAN : Construct(seq2seqRaises, nliRaises)
       /\ UNCHANGED <<anonVars, hlVars, segVars>>
    \/ \E c \in Callers : RunAnonymize(c)
    \/ \E c \in Callers, tokenizeRaises \in BOOLEAN :
          /\ run[c].pc = "anonymized"
          /\ \E sents \in DOMAIN SplitSentencesOf[run[c].anonym][tokenizeRaises] :
                RunSplit(c, tokenizeRaises, sents)
    \/ \E c \in Callers, gen \in ModelOutputs, generateRaises \in BOOLEAN :
          RunSummarize(c, gen, generateRaises)
    \/ \E c \in Callers, scores \in RunScores, inferenceRaises \in BOOLEAN :
          RunTag(c, scores, inferenceRaises)

\* the callers of Analyzer.run share one Analyzer
StartRun == InitRun /\ HlIdle /\ SegIdle

\* Analyzer.run called concurrently
SpecRun == StartRun /\ [][NextRun]_vars

\* only the analyzer's summarizer is in use, for one call
StartSum == InitSum /\ AnonIdle /\ HlIdle /\ SegIdle

\* an Analyzer is constructed and its summarizer is called
SpecSum == StartSum /\ [][NextSum]_vars

-----------------------------------------------------------------------------
(* Properties of the highlighter *)

\* C1: the spans _collect_matches returns are sorted by start, no two of
\* them overlap (an earlier span ends at or before the start of a later
\* one), and each has 0 <= start < end <= len(text)
C1_SortedNonOverlapping ==
    hlResult.done =>
        /\ \A i, j \in DOMAIN hlResult.spans :
              i < j => /\ hlResult.spans[i][1] <= hlResult.spans[j][1]
                       /\ hlResult.spans[i][2] <= hlResult.spans[j][1]
        /\ \A i \in DOMAIN hlResult.spans :
              /\ 0 <= hlResult.spans[i][1]
              /\ hlResult.spans[i][1] < hlResult.spans[i][2]
              /\ hlResult.spans[i][2] <= Len(hlText)

\* _collect_matches returned several spans, found in another order than
\* that of their starts
C1_Witness ==
    /\ hlResult.done
    /\ Len(hlResult.spans) >= 2
    /\ hlFound # hlResult.spans

-----------------------------------------------------------------------------
(* Properties of the risk tagger and the summarizer *)

\* the latest call was a tag call that returned
TagReturned == lastCall.kind = "tag" /\ lastCall.outcome = "returned"

\* C2: the distribution tag returns has every value in [0, 1] and its
\* values sum to 1, whatever the configuration and the entailment scores
C2_Normalised ==
    TagReturned =>
        /\ \A k \in KeySet(lastCall.probs) :
              0 <= lastCall.probs.num[k] /\ lastCall.probs.num[k] <= lastCall.probs.den
        /\ Total(lastCall.probs) = lastCall.probs.den

\* C3: the label follows the fixed priority: "high risk" if its final
\* probability reaches threshold_high; otherwise "moderate risk" if its
\* final probability reaches threshold_moderate and the argmax is not
\* "high risk"; otherwise the argmax of the final distribution
C3_DecisionRule ==
    TagReturned =>
        LET hi == Geq(Prob(lastCall.probs, HIGH), riskCfg.th_high)
            mod == Geq(Prob(lastCall.probs, MODERATE), riskCfg.th_mod)
        IN  /\ lastCall.top \in ArgMax(lastCall.probs)
            /\ hi => lastCall.label = HIGH
            /\ (~hi /\ mod /\ lastCall.top # HIGH) => lastCall.label = MODERATE
            /\ (~hi /\ ~(mod /\ lastCall.top # HIGH)) => lastCall.label = lastCall.top

\* tag returned "moderate risk" by the second rule although the argmax
\* was "low risk"
C3_Witness ==
    /\ TagReturned
    /\ ~Geq(Prob(lastCall.probs, HIGH), riskCfg.th_high)
    /\ lastCall.top = LOW
    /\ lastCall.label = MODERATE

\* low < moderate < high
Severity(label) == CASE label = LOW -> 1 [] label = MODERATE -> 2 [] label = HIGH -> 3

\* C4: for a final distribution over the three severities that sums to 1,
\* the returned label is never of lower severity than a label of the
\* highest probability; in particular it is "high risk" when "high risk"
\* has the maximal probability
C4_OnlyEscalates ==
    (/\ TagReturned
     /\ KeySet(lastCall.probs) \subseteq {LOW, MODERATE, HIGH}
     /\ Total(lastCall.probs) = lastCall.probs.den)
    =>  \A k \in ArgMax(lastCall.probs) : Severity(lastCall.label) >= Severity(k)

\* C5: with the classifier unavailable and heuristics enabled, a text that
\* matches a high-severity pattern (in any letter case) gets high risk =
\* 0.85 and the label "high risk"
C5_HighKeyword ==
    (/\ TagReturned
     /\ ~nli_ok
     /\ riskCfg.use_heuristics
     /\ \E i \in DOMAIN HEURISTIC_PATTERNS.high :
           Matches(HEURISTIC_PATTERNS.high[i], lastCall.text, TRUE))
    =>  /\ Prob(lastCall.probs, HIGH)[1] * 100 = 85 * Prob(lastCall.probs, HIGH)[2]
        /\ lastCall.label = HIGH

\* heuristics-only tag of the text that matches a moderate pattern and, in
\* upper case, a high one, under a threshold_high above 0.85
C5_Witness ==
    /\ TagReturned
    /\ ~nli_ok
    /\ riskCfg.use_heuristics
    /\ lastCall.text = TextBoth
    /\ ~Geq(<<85, 100>>, riskCfg.th_high)
    /\ lastCall.label = HIGH

\* C6: with the model and the heuristics, final[k] = 0.7 * model[k] +
\* 0.3 * heuristic[k] for every label k of either, a missing label counting
\* 0; without the model and with heuristics, final is the heuristic prior;
\* without both, final is {low risk: 1.0}
C6_FinalDistribution ==
    TagReturned =>
        LET p == lastCall.probs
            m == lastCall.model
            b == lastCall.base
        IN  /\ (nli_ok /\ riskCfg.use_heuristics) =>
                  /\ KeySet(p) = KeySet(m) \cup KeySet(b)
                  /\ \A k \in KeySet(p) :
                        10 * p.num[k] * Prob(m, k)[2] * Prob(b, k)[2]
                          = p.den * (7 * Prob(m, k)[1] * Prob(b, k)[2]
                                       + 3 * Prob(b, k)[1] * Prob(m, k)[2])
            /\ (~nli_ok /\ riskCfg.use_heuristics) =>
                  /\ b = PriorOf[lastCall.text]
                  /\ KeySet(p) = KeySet(b)
                  /\ \A k \in KeySet(p) : p.num[k] * b.den = b.num[k] * p.den
            /\ (~nli_ok /\ ~riskCfg.use_heuristics) =>
                  /\ KeySet(p) = {LOW}
                  /\ p.num[LOW] = p.den

\* a fused result in which one label comes from the model alone, with a
\* positive share, and another from the heuristics alone
C6_Witness ==
    /\ TagReturned
    /\ lastCall.fused
    /\ "critical risk" \in KeySet(lastCall.model) \ KeySet(lastCall.base)
    /\ lastCall.model.num["critical risk"] > 0
    /\ MODERATE \in KeySet(lastCall.base) \ KeySet(lastCall.model)
    /\ lastCall.probs.num[MODERATE] > 0

\* C7: a load that raises in the constructor leaves the instance
\* unavailable; after construction no call changes an availability flag
\* or loads again; and every tag result of an instance whose load failed
\* records "heuristics-only"
C7_AvailabilityPermanent ==
    /\ [](phase = "ready" =>
            /\ loads.nliRaised => ~nli_ok
            /\ loads.seq2seqRaised => ~abstractive_ok
            /\ (TagReturned /\ ~nli_ok) => lastCall.meta.model = "heuristics-only")
    /\ [][phase = "ready" =>
            /\ nli_ok' = nli_ok
            /\ abstractive_ok' = abstractive_ok
            /\ loads' = loads]_vars

\* a tag call returned on an instance whose classifier load had raised
C7_Witness ==
    /\ phase = "ready"
    /\ loads.nliRaised
    /\ loads.seq2seqRaised
    /\ loads.nli = 1
    /\ TagReturned
    /\ lastCall.meta.model = "heuristics-only"

\* C8: no failure of a model collaborator, at load time or during a call
\* of tag or summarize, surfaces as an error: every call returns
C8_NeverRaises == lastCall.outcome # "raised"

-----------------------------------------------------------------------------
(* Properties of the anonymizer *)

\* the substrings of txt that pattern matches, as finditer finds them
MatchedIn(pattern, txt) ==
    {Slice(txt, m[1], m[2]) : m \in {FindIter(pattern.rx, txt, pattern.ic)[k] :
                                        k \in DOMAIN FindIter(pattern.rx, txt, pattern.ic)}}

\* C9: no substring of the input that one of the PHI patterns matches
\* appears in the text anonymize returns; stated here for the configurations
\* that do not keep dates
C9_NoLeak ==
    (anonResult.done /\ ~settings.keep_dates) =>
        \A k \in DOMAIN PATTERNS :
            \A token \in MatchedIn(PATTERNS[k], anonText) :
                ~Contains(anonResult.text, token)

\* C10: for the report with one email address, one phone number and one
\* MRN, anonymize returns counts with email = 1, phone = 1 and mrn = 1
C10_ExampleCounts ==
    (anonResult.done /\ anonText = ExampleReport) =>
        /\ Get(anonResult.counts, "email", 0) = 1
        /\ Get(anonResult.counts, "phone", 0) = 1
        /\ Get(anonResult.counts, "mrn", 0) = 1

-----------------------------------------------------------------------------
(* Anonymizer: repeated calls *)

-----------------------------------------------------------------------------
(* Anonymizer: whitespace reduction *)

\* txt neither begins nor ends with whitespace
Trimmed(txt) == txt = <<>> \/ (txt[1] \notin Space /\ txt[Len(txt)] \notin Space)

\* C12: with whitespace reduction enabled the returned text has no two
\* adjacent spaces or tabs, no empty or whitespace-only line and no leading
\* or trailing whitespace on the text or on any of its lines, and the
\* example comes out as the two lines "Line 1" and "Line 2"
C12_WhitespaceReduced ==
    (anonResult.done /\ settings.reduce_whitespace)
        => /\ \A i \in 1..(Len(anonResult.text) - 1) :
                 ~(anonResult.text[i] \in {" ", "\t"}
                     /\ anonResult.text[i + 1] \in {" ", "\t"})
           /\ Trimmed(anonResult.text)
           /\ \A k \in DOMAIN SplitLines(anonResult.text) :
                 /\ SplitLines(anonResult.text)[k] # <<>>
                 /\ Trimmed(SplitLines(anonResult.text)[k])
           /\ anonText = ExampleLines
                 => SplitLines(anonResult.text)
                      = <<<<"L", "i", "n", "e", " ", "1">>,
                          <<"L", "i", "n", "e", " ", "2">>>>

-----------------------------------------------------------------------------
(* Summarizer: the fallback *)

\* C13: when the summarization model is not available, summarize returns
\* for every text a non-empty summary of at most three sentences, and the
\* mode in its metadata is the extractive one
C13_FallbackSummary ==
    (lastCall.kind = "summarize" /\ lastCall.outcome = "returned" /\ ~abstractive_ok)
        => /\ lastCall.summary # <<>>
           /\ Len(SomeSents(lastCall.summary)) <= max_sents
           /\ lastCall.mode = "extractive"

-----------------------------------------------------------------------------
(* Summarizer: truncation *)

\* the first floor(0.6 B) and the last B - floor(0.6 B) of tokens
HeadAndTail(B, tokens) ==
    SubSeq(tokens, 1, (6 * B) \div 10)
        \o SubSeq(tokens, Len(tokens) - (B - (6 * B) \div 10) + 1, Len(tokens))

\* C14: _truncate_by_tokens returns the text unchanged when the model is
\* not loaded or the text has at most B tokens; otherwise it keeps exactly
\* the first floor(0.6 B) and the last B - floor(0.6 B) tokens, B tokens in
\* all
C14_HeadTailWindow ==
    lastCall.kind = "truncate"
        => IF ~abstractive_ok \/ Len(Encode(lastCall.text)) <= sumCfg.max_input_tokens
           THEN lastCall.trunc = lastCall.text
           ELSE /\ Encode(lastCall.trunc)
                     = HeadAndTail(sumCfg.max_input_tokens, Encode(lastCall.text))
                /\ Len(Encode(lastCall.trunc)) = sumCfg.max_input_tokens

-----------------------------------------------------------------------------
(* Segmenter: the returned sentences *)

\* C15: on the primary and on the fallback path every string that
\* split_sentences returns is trimmed and longer than one character, and an
\* empty or whitespace-only text gives the empty sequence
C15_SentencesTrimmedAndLong ==
    segCall.done
        => /\ \A k \in DOMAIN segCall.sents :
                 /\ Trimmed(segCall.sents[k])
                 /\ Len(segCall.sents[k]) > 1
           /\ Strip(segCall.text) = <<>> => segCall.sents = <<>>

-----------------------------------------------------------------------------
(* Highlighter: the overlap resolution *)

\* the candidates and the accepted spans, as sets
Candidates == {hlFound[i] : i \in DOMAIN hlFound}

Accepted == {hlResult.spans[i] : i \in DOMAIN hlResult.spans}

\* the place of the candidate x in the list as found
Pos(x) == CHOOSE i \in DOMAIN hlFound : hlFound[i] = x /\ \A j \in 1..(i - 1) : hlFound[j] # x

\* the candidate a is considered before the candidate x: it starts earlier,
\* or at the same offset and is longer, or has the same offsets and was
\* found earlier
ConsideredBefore(a, x) ==
    \/ a[1] < x[1]
    \/ a[1] = x[1] /\ a[2] > x[2]
    \/ a[1] = x[1] /\ a[2] = x[2] /\ Pos(a) < Pos(x)

\* the end of the last span accepted before x is considered, -1 if none
LastEndBefore(x) ==
    LET ends == {a[2] : a \in {b \in Accepted : ConsideredBefore(b, x)}}
    IN  IF ends = {} THEN -1 ELSE CHOOSE e \in ends : \A d \in ends : d <= e

\* C19: the candidates are considered by ascending start and, for one
\* start, descending length; a candidate is accepted exactly if it starts
\* at or behind the end of the last span accepted before it; so every
\* discarded candidate overlaps an accepted span that starts earlier, or at
\* the same offset and is at least as long, and the first candidate in that
\* order is accepted
C19_GreedyEarliestLongest ==
    hlResult.done =>
        /\ Accepted \subseteq Candidates
        /\ \A i, j \in DOMAIN hlResult.spans :
              i < j => ConsideredBefore(hlResult.spans[i], hlResult.spans[j])
        /\ \A x \in Candidates : x \in Accepted <=> x[1] >= LastEndBefore(x)
        /\ \A x \in Candidates \ Accepted :
              \E a \in Accepted :
                  /\ a[1] < x[2] /\ x[1] < a[2]
                  /\ a[1] < x[1] \/ (a[1] = x[1] /\ a[2] >= x[2])
        /\ \A x \in Candidates :
              (\A y \in Candidates \ {x} : ConsideredBefore(x, y))
                  => (hlResult.spans # <<>> /\ hlResult.spans[1] = x)

\* of two candidates with one start the longer was accepted and the shorter
\* discarded, and a later candidate was accepted behind it
C19_Witness ==
    /\ hlResult.done
    /\ Len(hlResult.spans) >= 2
    /\ \E x \in Candidates \ Accepted :
          \E a \in Accepted : a[1] = x[1] /\ a[2] > x[2]

-----------------------------------------------------------------------------
(* Anonymizer: the counts *)

\* for the pass of a pattern that starts on the text before: the category
\* is in counts exactly if the pass is not skipped and the pattern matches
\* in before, and then its count is the number of those matches
PassAgrees(s, before, pattern, n, counts) ==
    /\ pattern.name \in DOMAIN counts
          <=> (~(pattern.name = "date" /\ s.keep_dates) /\ n >= 1)
    /\ pattern.name \in DOMAIN counts => counts[pattern.name] = n

RECURSIVE CountsAgreeFrom(_, _, _, _)
\* PassAgrees for the passes from the k-th on, the k-th starting on before
CountsAgreeFrom(s, before, k, counts) ==
    IF before = before /\ k > Len(PATTERNS) THEN TRUE
    ELSE /\ PassAgrees(s, before, PATTERNS[k],
                       Len(FindIter(PATTERNS[k].rx, before, PATTERNS[k].ic)), counts)
         /\ CountsAgreeFrom(s, AnonPass(s, <<before, <<>>>>, PATTERNS[k])[1], k + 1,
                            counts)

\* C18: the categories are processed in table order, each on the text the
\* passes before it left; counts holds a category exactly if its pass was
\* not skipped and its pattern matched in the text at the start of its
\* pass, and the value is the number of those matches
C18_CountsExact ==
    anonResult.done => CountsAgreeFrom(settings, anonText, 1, anonResult.counts)

-----------------------------------------------------------------------------
(* Risk: the heuristic prior *)

\* some pattern of the severity group occurs in the lower-cased text
GroupMatches(group, text) ==
    \E i \in DOMAIN HEURISTIC_PATTERNS[group] :
        SearchFrom(HEURISTIC_PATTERNS[group][i], LowerText(text), 0, FALSE) # <<>>

\* GroupMatches, for each severity group and each text passed to tag
GroupMatchOf ==
    [group \in {"high", "moderate"} |-> [t \in RiskTexts |-> GroupMatches(group, t)]]

\* d is the dict {high: h/100, moderate: m/100, low: l/100}
IsPrior(d, h, m, l) ==
    /\ KeySet(d) = {HIGH, MODERATE, LOW}
    /\ Prob(d, HIGH)[1] * 100 = h * Prob(d, HIGH)[2]
    /\ Prob(d, MODERATE)[1] * 100 = m * Prob(d, MODERATE)[2]
    /\ Prob(d, LOW)[1] * 100 = l * Prob(d, LOW)[2]

\* C17: the prior tag computes with heuristics enabled is decided by which
\* severity groups match the lower-cased text: 0.85 / 0.10 / 0.05 when the
\* high group matches, whatever the moderate group does; otherwise
\* 0.20 / 0.60 / 0.20 when the moderate group matches; otherwise
\* 0.05 / 0.25 / 0.70
C17_PriorByGroups ==
    (TagReturned /\ riskCfg.use_heuristics)
    =>  IF GroupMatchOf["high"][lastCall.text]
        THEN IsPrior(lastCall.base, 85, 10, 5)
        ELSE IF GroupMatchOf["moderate"][lastCall.text]
        THEN IsPrior(lastCall.base, 20, 60, 20)
        ELSE IsPrior(lastCall.base, 5, 25, 70)

\* tag has computed the prior of a text in which only the moderate group
\* matches, with the classifier loaded
C17_Witness ==
    /\ TagReturned
    /\ riskCfg.use_heuristics
    /\ nli_ok
    /\ GroupMatchOf["moderate"][lastCall.text]
    /\ ~GroupMatchOf["high"][lastCall.text]
    /\ IsPrior(lastCall.base, 20, 60, 20)

-----------------------------------------------------------------------------
(* Analyzer.run: concurrent callers *)

\* out is a result run can return for a text whose anonymization is a when
\* it is the only call in progress, under the configurations and flags as
\* they are now
ReturnedAlone(a, out) ==
    /\ out.anonymized = a.text
    /\ out.meta.phi = a.counts
    /\ \E b \in BOOLEAN :
          \E s \in DOMAIN SplitSentencesOf[a.text][b] :
              out.sentences = SplitSentencesOf[a.text][b][s]
    /\ \E gen \in ModelOutputs, generateRaises \in BOOLEAN :
          \E sum \in {SummarizeClean(sumCfg, abstractive_ok, a.text, CleanOf[a.text],
                                     gen, generateRaises)} :
              /\ out.summary = sum.summary
              /\ out.meta.summ_mode = sum.mode
              /\ out.meta.summ_model = sum.sum_model
    /\ \E scores \in RunScores :
          \E top \in TopLabels(TagProbs(riskCfg, nli_ok, a.text, scores)) :
              \E tag \in {TagReturn(riskCfg, nli_ok, a.text,
                                    TagProbs(riskCfg, nli_ok, a.text, scores), top)} :
                  /\ out.risk_level = tag.label
                  /\ out.risk_probs = tag.probs
                  /\ out.meta.risk = tag.meta

\* C16: with several callers inside Analyzer.run on one Analyzer, no step
\* of a call changes the settings, the configurations or the availability
\* flags, and every call that returns returns a result it can return when
\* it runs alone
C16_ConcurrentCallsSafe ==
    /\ [](\A c \in Callers :
            run[c].pc = "done"
                => ReturnedAlone(AnonymizeOf[settings][run[c].raw], run[c].out))
    /\ [][phase = "ready"
            => UNCHANGED <<settings, riskCfg, sumCfg, nli_ok, abstractive_ok, loads,
                           phase>>]_vars

\* one caller has returned a result with redactions while another caller,
\* with another text, is inside run, both models being loaded
C16_Witness ==
    /\ nli_ok /\ abstractive_ok
    /\ run[1].pc = "done"
    /\ run[1].out.anonymized # run[1].raw
    /\ run[1].out.meta.summ_mode = "abstractive"
    /\ run[2].pc \in {"split", "summarized"}
    /\ run[2].raw # run[1].raw

-----------------------------------------------------------------------------
(* Analyzer.run: what the stages receive *)

\* C20: in every call of run nothing else has started before anonymize
\* returned; split_sentences, summarize and tag, and the models behind
\* them, are handed the anonymized text; and the fields of the result come
\* from that anonymized text
C20_AnonymizedFirst ==
    \A c \in Callers :
        /\ run[c].pc = "start"
             => /\ run[c].seg_arg = <<>> /\ run[c].sents = <<>>
                /\ run[c].sum = NoCall /\ run[c].tag = NoCall
        /\ run[c].pc # "start"
             => /\ run[c].anonym = AnonymizeOf[settings][run[c].raw].text
                /\ run[c].counts = AnonymizeOf[settings][run[c].raw].counts
        /\ run[c].pc \notin {"start", "anonymized"}
             => /\ run[c].seg_arg = run[c].anonym
                /\ \E b \in BOOLEAN :
                      \E s \in DOMAIN SplitSentencesOf[run[c].anonym][b] :
                          run[c].sents = SplitSentencesOf[run[c].anonym][b][s]
        /\ run[c].sum.kind # "none"
             => /\ run[c].sum.text = run[c].anonym
                /\ run[c].sum.trunc \in {<<>>, TruncatedPromptOf[sumCfg][run[c].anonym]}
                /\ run[c].sum.mode = "extractive"
                     => run[c].sum.summary = ExtractiveSummaryOf[run[c].anonym]
                /\ run[c].sum.mode = "passthrough"
                     => run[c].sum.summary = CleanOf[run[c].anonym]
        /\ run[c].tag.kind # "none"
             => /\ run[c].tag.text = run[c].anonym
                /\ run[c].premise = FirstN(run[c].anonym, PremiseLen)
                /\ run[c].tag.outcome = "returned"
                     => run[c].tag.base = PriorOf[run[c].anonym]
        /\ run[c].pc = "done"
             => run[c].out = Output(run[c].anonym, run[c].counts, run[c].sents,
                                    run[c].sum, run[c].tag)

\* a call has returned whose anonymized text differs from its text
\* argument, after the sentences were split by the fallback and the summary
\* was extracted from the anonymized text
C20_Witness ==
    \E c \in Callers :
        /\ run[c].pc = "done"
        /\ run[c].anonym # run[c].raw
        /\ DOMAIN run[c].counts # {}
        /\ Len(run[c].out.sentences) > 1
        /\ run[c].out.meta.summ_mode = "extractive"
        /\ run[c].out.summary # <<>>

====
